---------------------------- MODULE Spec2Model ----------------------------
(***************************************************************************)
(* A model of templative's template materialization: the tree copier       *)
(* fs_copy::copy_template (exclusion, symlink rewriting, write-mode        *)
(* conflict handling) and the command ops::init::cmd_init that drives it.  *)
(*                                                                         *)
(* The file system is a function from absolute paths to nodes.  A path is  *)
(* the sequence of its components below `/`; the empty sequence is `/`.    *)
(***************************************************************************)
EXTENDS Integers, Sequences, FiniteSets, TLC

VARIABLES
    fs,           \* the file system: absolute path -> node
    fs0,          \* the file system when the modelled operation was invoked
    fs_prev,      \* the file system before the latest step of the copy walk
    pc,           \* position of the running operation
    source_dir,   \* copy_template's source_dir
    dest_dir,     \* copy_template's dest_dir
    exclude,      \* copy_template's exclude: a sequence of patterns
    write_mode,   \* copy_template's write_mode (the caller's resolved mode)
    copy_mode,    \* copy_template's local copy_mode
    stack,        \* the WalkDir iterator: per open directory, entries not yet yielded
    trace,        \* one record per entry the main loop has handled
    result,       \* what copy_template returned
    collisions,   \* the paths carried by FilesWouldBeOverwritten
    caller,       \* who called copy_template: "direct" or "cmd_init"
    fs_init,      \* the file system when cmd_init was invoked
    env,          \* cmd_init's inputs and environment (a record, never changed)
    target_canonical, \* cmd_init's target_canonical, << "?" >> before it is computed
    steps,        \* the operations cmd_init has performed, in order
    init_result,  \* what cmd_init returned
    options,      \* ResolvedOptions::build's arguments: config, template, the two flags
    resolved,     \* what ResolvedOptions::build returned
    disk,         \* the files of the configuration directory
    procs,        \* the invocations of the tool that save, step by step
    concurrency,  \* how many invocations may be in the middle of a save at once
    last          \* the last command, or function applied on its own: arguments, disk before, error

copyVars == << fs0, fs_prev, source_dir, dest_dir, exclude, write_mode,
               copy_mode, stack, trace, result, collisions >>

initVars == << fs_init, env, target_canonical, steps, init_result >>

initVars_but_steps == << fs_init, env, target_canonical, init_result >>

resolveVars == << options, resolved >>

storeVars == << disk, procs, concurrency, last >>

vars == << fs, pc, caller, copyVars, initVars, resolveVars, storeVars >>

----------------------------------------------------------------------------
(* Paths *)

\* Symlink chains followed before a lookup fails with ELOOP.
MaxLinkDepth == 2

Root == << >>

Parent(p) == IF p = << >> THEN << >> ELSE SubSeq(p, 1, Len(p) - 1)

IsPrefix(p, q) == Len(p) <= Len(q) /\ SubSeq(q, 1, Len(p)) = p

\* Path::strip_prefix: the components of q below p.
StripPrefix(p, q) == SubSeq(q, Len(p) + 1, Len(q))

\* A symlink's raw target is a sequence of components; an absolute target
\* starts with the component "/".
IsAbsolute(t) == t # << >> /\ Head(t) = "/"

TargetComps(t) == IF IsAbsolute(t) THEN Tail(t) ELSE t

\* Relative paths the source and destination trees are built from.
RelPaths ==
    { <<"a.txt">>, <<"b.txt">>, <<"a.log">>, <<"link">>,
      <<"src">>, <<"src", "main.txt">>,
      <<".git">>, <<".git", "config">>,
      <<"node_modules">>, <<"node_modules", "x">>,
      <<"dist">>, <<"dist", "bundle.js">>,
      <<"deep">>, <<"deep", "nested">>, <<"deep", "nested", "f.txt">>,
      <<"deep", ".git">>, <<"deep", ".git", "config">> }

TemplateDir == <<"t">>
WorkDir == <<"w">>
ExternalDir == <<"e">>
HomeDir == <<"home">>

AllPaths ==
    { Root, TemplateDir, WorkDir, ExternalDir,
      <<"e", "x">>, <<"e", "y">>, <<"home">>, <<"home", ".profile">>,
      <<"w", "hook.out">> }
    \cup { TemplateDir \o r : r \in RelPaths }
    \cup { WorkDir \o r : r \in RelPaths }

----------------------------------------------------------------------------
(* File system nodes and the system calls the program makes on them *)

NoNode == [kind |-> "none", content |-> "", target |-> << >>]
DirNode == [kind |-> "dir", content |-> "", target |-> << >>]
FileNode(c) == [kind |-> "file", content |-> c, target |-> << >>]
LinkNode(t) == [kind |-> "symlink", content |-> "", target |-> t]

NodeAt(f, p) == IF p \in DOMAIN f THEN f[p] ELSE NoNode

\* Path resolution from the canonical directory `cur` along the components
\* `rest`; `follow` says whether a symlink in the last position is followed.
\* st is "found", "missing" (every directory on the way exists, the last
\* component does not: path is where it would be created), "enoent",
\* "enotdir" or "eloop".
RECURSIVE Resolve(_, _, _, _, _)
Resolve(f, cur, rest, follow, fuel) ==
    IF rest = << >> THEN [st |-> "found", path |-> cur]
    ELSE LET c == Head(rest)
             more == Tail(rest)
             p == Append(cur, c)
             n == NodeAt(f, p)
         IN  IF c = ".." THEN Resolve(f, Parent(cur), more, follow, fuel)
             ELSE IF c = "." THEN Resolve(f, cur, more, follow, fuel)
             ELSE IF n.kind = "none"
                  THEN [st |-> IF more = << >> THEN "missing" ELSE "enoent", path |-> p]
             ELSE IF n.kind = "dir" THEN Resolve(f, p, more, follow, fuel)
             ELSE IF n.kind = "file"
                  THEN [st |-> IF more = << >> THEN "found" ELSE "enotdir", path |-> p]
             ELSE IF more = << >> /\ ~follow THEN [st |-> "found", path |-> p]
             ELSE IF fuel = 0 THEN [st |-> "eloop", path |-> p]
             ELSE Resolve(f, IF IsAbsolute(n.target) THEN Root ELSE cur,
                          TargetComps(n.target) \o more, follow, fuel - 1)

\* lstat(2) and stat(2).
Lstat(f, p) == Resolve(f, Root, p, FALSE, MaxLinkDepth)
Stat(f, p) == Resolve(f, Root, p, TRUE, MaxLinkDepth)

\* Path::symlink_metadata().is_ok()
SymlinkMetadataOk(f, p) == Lstat(f, p).st = "found"

\* Path::exists(): follows symlinks, false for a dangling link.
Exists(f, p) == Stat(f, p).st = "found"

\* Path::is_dir(): follows symlinks.
IsDir(f, p) == Stat(f, p).st = "found" /\ NodeAt(f, Stat(f, p).path).kind = "dir"

\* Path::is_symlink()
IsSymlink(f, p) == Lstat(f, p).st = "found" /\ NodeAt(f, Lstat(f, p).path).kind = "symlink"

\* The DirEntry's file type under follow_links(false): the lstat kind.
FileType(f, p) == IF Lstat(f, p).st = "found" THEN NodeAt(f, Lstat(f, p).path).kind ELSE "none"

\* read_dir: the entries of the directory whose canonical path is d.
Children(f, d) ==
    { p \in DOMAIN f : p # Root /\ Parent(p) = d /\ f[p].kind # "none" }

\* mkdir(2): does not follow a symlink in the last position.
Mkdir(f, p) ==
    LET r == Lstat(f, p)
    IN  IF r.st = "missing" /\ r.path \in DOMAIN f
        THEN [ok |-> TRUE, err |-> "", fs |-> [f EXCEPT ![r.path] = DirNode]]
        ELSE [ok |-> FALSE,
              err |-> IF r.st = "enoent" THEN "NotFound"
                      ELSE IF r.st = "found" THEN "AlreadyExists" ELSE "Other",
              fs |-> f]

\* std::fs::create_dir_all: mkdir, on NotFound the parent first and mkdir
\* again; any other failure is forgiven when the path is a directory.
\* Directories made before a failure stay.
RECURSIVE CreateDirAll(_, _)
CreateDirAll(f, p) ==
    LET m == Mkdir(f, p)
    IN  IF m.ok THEN [ok |-> TRUE, fs |-> m.fs]
        ELSE IF m.err = "NotFound" /\ p # Root
        THEN LET q == CreateDirAll(f, Parent(p))
                 m2 == Mkdir(q.fs, p)
             IN  IF ~q.ok THEN q
                 ELSE IF m2.ok THEN [ok |-> TRUE, fs |-> m2.fs]
                 ELSE [ok |-> IsDir(q.fs, p), fs |-> q.fs]
        ELSE [ok |-> IsDir(f, p), fs |-> f]

\* std::fs::remove_file (unlink): removes a file or a symlink, never a directory.
RemoveFile(f, p) ==
    LET r == Lstat(f, p)
    IN  IF r.st = "found" /\ NodeAt(f, r.path).kind \in {"file", "symlink"} /\ r.path \in DOMAIN f
        THEN [ok |-> TRUE, fs |-> [f EXCEPT ![r.path] = NoNode]]
        ELSE [ok |-> FALSE, fs |-> f]

\* std::fs::copy: reads the source file and opens the destination with
\* create + truncate, which FOLLOWS a symlink at the destination path.
CopyFile(f, src, dst) ==
    LET s == Stat(f, src)
        d == Stat(f, dst)
    IN  IF s.st # "found" \/ NodeAt(f, s.path).kind # "file" THEN [ok |-> FALSE, fs |-> f]
        ELSE IF d.st = "found" /\ NodeAt(f, d.path).kind = "file" /\ d.path \in DOMAIN f
        THEN [ok |-> TRUE, fs |-> [f EXCEPT ![d.path] = FileNode(f[s.path].content)]]
        ELSE IF d.st = "missing" /\ d.path \in DOMAIN f
        THEN [ok |-> TRUE, fs |-> [f EXCEPT ![d.path] = FileNode(f[s.path].content)]]
        ELSE [ok |-> FALSE, fs |-> f]

\* std::os::unix::fs::symlink: fails when anything is at the path.
MakeSymlink(f, target, p) ==
    LET r == Lstat(f, p)
    IN  IF r.st = "missing" /\ r.path \in DOMAIN f
        THEN [ok |-> TRUE, fs |-> [f EXCEPT ![r.path] = LinkNode(target)]]
        ELSE [ok |-> FALSE, fs |-> f]

----------------------------------------------------------------------------
(* Exclusion *)

\* A glob pattern, and a string it is matched against, is the sequence of
\* its `/`-separated segments: "deep/nested" is <<"deep", "nested">>.
\* Glob::new rejects an unclosed character class.
InvalidGlob == <<"[">>

\* File names that end in ".log".
LogNames == {"a.log"}

\* Glob::new(pattern) succeeds.
GlobCompiles(pattern) == pattern # InvalidGlob

\* build_globset: Ok iff every pattern compiles.
build_globset_ok(patterns) ==
    \A i \in 1..Len(patterns) : GlobCompiles(patterns[i])

\* One compiled glob against a candidate string, with globset's defaults
\* (`*` also matches `/`, the whole candidate must match).
GlobMatches(pattern, candidate) ==
    IF pattern = <<"*">> THEN TRUE
    ELSE IF pattern = <<"*.log">>
    THEN candidate # << >> /\ candidate[Len(candidate)] \in LogNames
    ELSE pattern = candidate

\* GlobSet::is_match
GlobSetIsMatch(patterns, candidate) ==
    \E i \in 1..Len(patterns) : GlobMatches(patterns[i], candidate)

\* should_skip_entry under a wrong guess: only the whole relative path is
\* matched, components are not.
should_skip_entry_path_only(path, source_root, patterns) ==
    /\ IsPrefix(source_root, path)
    /\ GlobSetIsMatch(patterns, StripPrefix(source_root, path))

\* should_skip_entry, were the components of the entry's whole path looked
\* at and not only those below the source root.
should_skip_entry_absolute_components(path, source_root, patterns) ==
    /\ IsPrefix(source_root, path)
    /\ \/ \E i \in 1..Len(path) :
              \/ path[i] = ".git"
              \/ GlobSetIsMatch(patterns, <<path[i]>>)
       \/ GlobSetIsMatch(patterns, StripPrefix(source_root, path))

\* should_skip_entry, were only the top-level .git directory skipped.
should_skip_entry_top_level_git(path, source_root, patterns) ==
    /\ IsPrefix(source_root, path)
    /\ LET relative == StripPrefix(source_root, path)
       IN  \/ relative # << >> /\ relative[1] = ".git"
           \/ \E i \in 1..Len(relative) : GlobSetIsMatch(patterns, <<relative[i]>>)
           \/ GlobSetIsMatch(patterns, relative)

should_skip_entry(path, source_root, patterns) ==
    /\ IsPrefix(source_root, path)
    /\ LET relative == StripPrefix(source_root, path)
       IN  \/ \E i \in 1..Len(relative) :
                  \/ relative[i] = ".git"
                  \/ GlobSetIsMatch(patterns, <<relative[i]>>)
           \/ GlobSetIsMatch(patterns, relative)

\* The filter_entry closure of the main loop's walk, on one entry.
filter_entry(path, source_root, patterns) ==
    path = source_root \/ ~should_skip_entry(path, source_root, patterns)

\* The filter_entry closure of both walks: the root is kept, and an entry
\* that is skipped is neither yielded nor descended into.
Entries(f, d, src, patterns) ==
    { c \in Children(f, d) : filter_entry(c, src, patterns) }

\* Every entry a WalkDir of src with that filter yields below the directory d.
RECURSIVE Walked(_, _, _, _)
Walked(f, d, src, patterns) ==
    LET es == Entries(f, d, src, patterns)
    IN  es \cup UNION { IF f[c].kind = "dir" THEN Walked(f, c, src, patterns) ELSE {} : c \in es }

----------------------------------------------------------------------------
(* Symlink rewriting *)

\* Length of the longest common prefix of two component sequences.
RECURSIVE CommonLen(_, _)
CommonLen(a, b) ==
    IF a # << >> /\ b # << >> /\ Head(a) = Head(b)
    THEN 1 + CommonLen(Tail(a), Tail(b))
    ELSE 0

RECURSIVE DotDots(_)
DotDots(n) == IF n <= 0 THEN << >> ELSE <<"..">> \o DotDots(n - 1)

\* relative_path_between, were the steps up from from_dir left out.
relative_path_between_no_parent_steps(from_dir, to) ==
    LET common_len == CommonLen(from_dir, to)
        res == SubSeq(to, common_len + 1, Len(to))
    IN  IF res = << >> THEN <<".">> ELSE res

\* relative_path_between, were an empty result returned as it is.
relative_path_between_no_dot(from_dir, to) ==
    LET common_len == CommonLen(from_dir, to)
    IN  DotDots(Len(from_dir) - common_len) \o SubSeq(to, common_len + 1, Len(to))

relative_path_between(from_dir, to) ==
    LET common_len == CommonLen(from_dir, to)
        res == DotDots(Len(from_dir) - common_len) \o SubSeq(to, common_len + 1, Len(to))
    IN  IF res = << >> THEN <<".">> ELSE res

\* The target, were every link that resolves rewritten to the canonical
\* absolute path of what it points to.
new_target_always_absolute(f, source_path, dest_path, src, dst) ==
    LET raw_target == NodeAt(f, Lstat(f, source_path).path).target
        absolute_target == IF IsAbsolute(raw_target) THEN TargetComps(raw_target)
                           ELSE Parent(source_path) \o raw_target
        canonical_target == Stat(f, absolute_target)
    IN  IF canonical_target.st = "found" THEN <<"/">> \o canonical_target.path
        ELSE raw_target

\* The target, were the raw target kept whenever it resolves outside the
\* template.
new_target_raw_when_outside(f, source_path, dest_path, src, dst) ==
    LET raw_target == NodeAt(f, Lstat(f, source_path).path).target
        absolute_target == IF IsAbsolute(raw_target) THEN TargetComps(raw_target)
                           ELSE Parent(source_path) \o raw_target
        canonical_target == Stat(f, absolute_target)
        canonical_source == IF Stat(f, src).st = "found" THEN Stat(f, src).path ELSE src
    IN  IF /\ canonical_target.st = "found"
           /\ IsPrefix(canonical_source, canonical_target.path)
           /\ IsAbsolute(raw_target)
        THEN relative_path_between(
                 Parent(dest_path),
                 dst \o StripPrefix(canonical_source, canonical_target.path))
        ELSE raw_target

\* The target copy_symlink writes for the link at source_path.
new_target(f, source_path, dest_path, src, dst) ==
    LET raw_target == NodeAt(f, Lstat(f, source_path).path).target
        source_parent == Parent(source_path)
        absolute_target == IF IsAbsolute(raw_target) THEN TargetComps(raw_target)
                           ELSE source_parent \o raw_target
        canonical_target == Stat(f, absolute_target)
        canonical_source == IF Stat(f, src).st = "found" THEN Stat(f, src).path ELSE src
    IN  IF canonical_target.st = "found"
        THEN IF IsPrefix(canonical_source, canonical_target.path)
             THEN IF ~IsAbsolute(raw_target) THEN raw_target
                  ELSE relative_path_between(
                           Parent(dest_path),
                           dst \o StripPrefix(canonical_source, canonical_target.path))
             ELSE <<"/">> \o canonical_target.path
        ELSE raw_target

\* copy_symlink, were a target that does not resolve an error.
copy_symlink_broken_is_error(f, source_path, dest_path, src, dst) ==
    IF ~IsSymlink(f, source_path) \/ ~Exists(f, source_path) THEN [ok |-> FALSE, fs |-> f]
    ELSE MakeSymlink(f, new_target(f, source_path, dest_path, src, dst), dest_path)

\* copy_symlink: read_link, compute the target, symlink().
copy_symlink(f, source_path, dest_path, src, dst) ==
    IF ~IsSymlink(f, source_path) THEN [ok |-> FALSE, fs |-> f]
    ELSE MakeSymlink(f, new_target(f, source_path, dest_path, src, dst), dest_path)

----------------------------------------------------------------------------
(* The NoOverwrite pre-flight *)

\* collect_collisions under a wrong guess: existence is tested with
\* exists(), which does not see a dangling symlink.
collect_collisions_exists(f, src, dst, patterns) ==
    { dst \o StripPrefix(src, p) : p \in
        { q \in Walked(f, src, src, patterns) :
            /\ f[q].kind # "dir"
            /\ Exists(f, dst \o StripPrefix(src, q)) } }

collect_collisions(f, src, dst, patterns) ==
    { dst \o StripPrefix(src, p) : p \in
        { q \in Walked(f, src, src, patterns) :
            /\ f[q].kind # "dir"
            /\ SymlinkMetadataOk(f, dst \o StripPrefix(src, q)) } }

----------------------------------------------------------------------------
(* copy_template *)

WriteModes == {"Strict", "NoOverwrite", "SkipOverwrite", "Overwrite", "Ask"}

\* What prompt_file returns: one of the five FileChoice values, or an error
\* when the terminal interaction fails.
PromptOutcomes == {"Overwrite", "Skip", "OverwriteAll", "SkipAll", "Abort", "PromptFailed"}

\* prompt_file answered with Overwrite all or Skip all, were the answer to
\* hold for the asked entry only.
AskDecision_this_entry_only(choice) ==
    IF choice \in {"Overwrite", "OverwriteAll"}
    THEN [act |-> "overwrite", mode |-> "Ask", prompted |-> TRUE]
    ELSE IF choice \in {"Skip", "SkipAll"}
    THEN [act |-> "skip", mode |-> "Ask", prompted |-> TRUE]
    ELSE IF choice = "Abort" THEN [act |-> "abort", mode |-> "Ask", prompted |-> TRUE]
    ELSE [act |-> "prompt_failed", mode |-> "Ask", prompted |-> TRUE]

\* The `match prompt_file(&dest_path)?` of the Ask arm: what happens to the
\* colliding path (act), the copy_mode afterwards, and that prompt_file was
\* called.
AskDecision(choice) ==
    IF choice = "Overwrite" THEN [act |-> "overwrite", mode |-> "Ask", prompted |-> TRUE]
    ELSE IF choice = "Skip" THEN [act |-> "skip", mode |-> "Ask", prompted |-> TRUE]
    ELSE IF choice = "OverwriteAll"
    THEN [act |-> "overwrite", mode |-> "Overwrite", prompted |-> TRUE]
    ELSE IF choice = "SkipAll"
    THEN [act |-> "skip", mode |-> "SkipOverwrite", prompted |-> TRUE]
    ELSE IF choice = "Abort" THEN [act |-> "abort", mode |-> "Ask", prompted |-> TRUE]
    ELSE [act |-> "prompt_failed", mode |-> "Ask", prompted |-> TRUE]

\* The match on copy_mode, were copy_mode taken from write_mode again once
\* an entry has been handled.
ConflictDecision_mode_per_entry(mode, choice) ==
    IF mode \in {"Strict", "Overwrite", "NoOverwrite"}
    THEN [act |-> "overwrite", mode |-> write_mode, prompted |-> FALSE]
    ELSE IF mode = "SkipOverwrite"
    THEN [act |-> "skip", mode |-> write_mode, prompted |-> FALSE]
    ELSE AskDecision(choice)

\* The `match copy_mode` of both conflict branches.
ConflictDecision(mode, choice) ==
    IF mode \in {"Strict", "Overwrite", "NoOverwrite"}
    THEN [act |-> "overwrite", mode |-> mode, prompted |-> FALSE]
    ELSE IF mode = "SkipOverwrite"
    THEN [act |-> "skip", mode |-> mode, prompted |-> FALSE]
    ELSE AskDecision(choice)

\* The record the trace keeps of one handled entry: its relative path and
\* kind, whether its destination path was found to exist, whether the user
\* was asked and answered what, what was done, and copy_mode afterwards.
Event(rel, kind, conflict, prompted, choice, handled, mode) ==
    [rel |-> rel, kind |-> kind, conflict |-> conflict, prompted |-> prompted,
     choice |-> choice, handled |-> handled, mode |-> mode]

\* The outcome of one iteration of the main loop: go is FALSE when the
\* iteration returned an error.
Outcome(f, mode, go, err, ev) ==
    [fs |-> f, mode |-> mode, go |-> go, err |-> err, ev |-> ev]

\* An iteration that did not write, were "Abort" to give up the asked entry
\* only.
NotWritten_abort_skips(f, cd, choice, rel, kind) ==
    LET asked == IF cd.prompted THEN choice ELSE "none"
    IN  IF cd.act \in {"skip", "abort"}
        THEN Outcome(f, cd.mode, TRUE, "",
                     Event(rel, kind, TRUE, cd.prompted, asked,
                           IF cd.act = "abort" THEN "abort" ELSE "skip", cd.mode))
        ELSE Outcome(f, cd.mode, FALSE, "PromptFailed",
                     Event(rel, kind, TRUE, cd.prompted, asked, "fail", cd.mode))

\* An iteration that met an existing destination path and did not write:
\* `continue`, bail!("aborted by user"), or the prompt's own error.
NotWritten(f, cd, choice, rel, kind) ==
    LET asked == IF cd.prompted THEN choice ELSE "none"
    IN  IF cd.act = "skip"
        THEN Outcome(f, cd.mode, TRUE, "", Event(rel, kind, TRUE, cd.prompted, asked, "skip", cd.mode))
        ELSE IF cd.act = "abort"
        THEN Outcome(f, cd.mode, FALSE, "Aborted",
                     Event(rel, kind, TRUE, cd.prompted, asked, "abort", cd.mode))
        ELSE Outcome(f, cd.mode, FALSE, "PromptFailed",
                     Event(rel, kind, TRUE, cd.prompted, asked, "fail", cd.mode))

\* The end of an iteration that wrote: `made` is the result of the write
\* (copy_symlink or fs::copy) on the file system f.
Written(made, f, err, conflict, prompted, choice, mode, rel, kind) ==
    IF made.ok
    THEN Outcome(made.fs, mode, TRUE, "",
                 Event(rel, kind, conflict, prompted, choice,
                       IF conflict THEN "overwrite" ELSE "write", mode))
    ELSE Outcome(f, mode, FALSE, err, Event(rel, kind, conflict, prompted, choice, "fail", mode))

\* The symlink branch after remove_file: outside Ask its failure is returned
\* (`?`), inside Ask it is ignored (`.ok()`).
SymlinkRemoved(rm, f, cd, choice, path, src, dst) ==
    LET rel == StripPrefix(src, path)
        asked == IF cd.prompted THEN choice ELSE "none"
    IN  IF ~cd.prompted /\ ~rm.ok
        THEN Outcome(f, cd.mode, FALSE, "RemoveFailed",
                     Event(rel, "symlink", TRUE, FALSE, "none", "fail", cd.mode))
        ELSE Written(copy_symlink(rm.fs, path, dst \o rel, src, dst), rm.fs, "SymlinkFailed",
                     TRUE, cd.prompted, asked, cd.mode, rel, "symlink")

\* The symlink branch when dest_path.symlink_metadata().is_ok().
SymlinkConflict(f, cd, choice, path, src, dst) ==
    IF cd.act = "overwrite"
    THEN SymlinkRemoved(RemoveFile(f, dst \o StripPrefix(src, path)), f, cd, choice, path, src, dst)
    ELSE NotWritten(f, cd, choice, StripPrefix(src, path), "symlink")

\* The symlink branch after create_dir_all(parent).
SymlinkWithParent(parent, mode, choice, path, src, dst) ==
    LET rel == StripPrefix(src, path)
    IN  IF ~parent.ok
        THEN Outcome(parent.fs, mode, FALSE, "CreateParentFailed",
                     Event(rel, "symlink", FALSE, FALSE, "none", "fail", mode))
        ELSE IF SymlinkMetadataOk(parent.fs, dst \o rel)
        THEN SymlinkConflict(parent.fs, ConflictDecision(mode, choice), choice, path, src, dst)
        ELSE Written(copy_symlink(parent.fs, path, dst \o rel, src, dst), parent.fs,
                     "SymlinkFailed", FALSE, FALSE, "none", mode, rel, "symlink")

\* The symlink branch of the main loop.
HandleSymlink(f, mode, path, choice, src, dst) ==
    SymlinkWithParent(CreateDirAll(f, Parent(dst \o StripPrefix(src, path))),
                      mode, choice, path, src, dst)

\* The directory branch: create_dir_all(dest_path).
DirMade(made, mode, rel) ==
    Outcome(made.fs, mode, made.ok, IF made.ok THEN "" ELSE "CreateDirFailed",
            Event(rel, "dir", FALSE, FALSE, "none", IF made.ok THEN "mkdir" ELSE "fail", mode))

\* The directory branch, were a directory made only as the parent of what
\* is copied into it.
HandleDir_parents_only(f, mode, path, src, dst) ==
    Outcome(f, mode, TRUE, "",
            Event(StripPrefix(src, path), "dir", FALSE, FALSE, "none", "none", mode))

HandleDir(f, mode, path, src, dst) ==
    DirMade(CreateDirAll(f, dst \o StripPrefix(src, path)), mode, StripPrefix(src, path))

\* The regular-file branch when dest_path.exists(): nothing is removed, the
\* file is copied over what is there.
FileConflict(f, cd, choice, path, src, dst) ==
    IF cd.act = "overwrite"
    THEN Written(CopyFile(f, path, dst \o StripPrefix(src, path)), f, "CopyFailed",
                 TRUE, cd.prompted, IF cd.prompted THEN choice ELSE "none", cd.mode,
                 StripPrefix(src, path), "file")
    ELSE NotWritten(f, cd, choice, StripPrefix(src, path), "file")

\* The regular-file branch after create_dir_all(parent).  File permissions
\* are not modelled: set_permissions is best effort and changes no entry.
FileWithParent(parent, mode, choice, path, src, dst) ==
    LET rel == StripPrefix(src, path)
    IN  IF ~parent.ok
        THEN Outcome(parent.fs, mode, FALSE, "CreateParentFailed",
                     Event(rel, "file", FALSE, FALSE, "none", "fail", mode))
        ELSE IF Exists(parent.fs, dst \o rel)
        THEN FileConflict(parent.fs, ConflictDecision(mode, choice), choice, path, src, dst)
        ELSE Written(CopyFile(parent.fs, path, dst \o rel), parent.fs, "CopyFailed",
                     FALSE, FALSE, "none", mode, rel, "file")

\* The regular-file branch of the main loop.
HandleFile(f, mode, path, choice, src, dst) ==
    FileWithParent(CreateDirAll(f, Parent(dst \o StripPrefix(src, path))),
                   mode, choice, path, src, dst)

\* The body of `for entry in walker` for the entry at `path`.
HandleEntry(f, mode, path, choice, src, dst) ==
    IF IsSymlink(f, path) THEN HandleSymlink(f, mode, path, choice, src, dst)
    ELSE IF FileType(f, path) = "dir" THEN HandleDir(f, mode, path, src, dst)
    ELSE IF FileType(f, path) = "file" THEN HandleFile(f, mode, path, choice, src, dst)
    ELSE Outcome(f, mode, TRUE, "", Event(StripPrefix(src, path), "other", FALSE, FALSE, "none", "none", mode))

\* The iterator drops the directories it has exhausted.
RECURSIVE PopDone(_)
PopDone(s) ==
    IF s # << >> /\ s[Len(s)] = {} THEN PopDone(SubSeq(s, 1, Len(s) - 1)) ELSE s

\* The iterator, were it built with follow_links(true): a symlink to a
\* directory is opened like a directory, its entries named through the link.
Advance_follow_links(s, f, path, src, patterns) ==
    LET top == Len(s)
        rest == [s EXCEPT ![top] = @ \ {path}]
        through == { Append(path, c[Len(c)]) : c \in Children(f, Stat(f, path).path) }
    IN  PopDone(IF IsDir(f, path)
                THEN Append(rest, { c \in through : ~should_skip_entry(c, src, patterns) })
                ELSE rest)

\* The iterator after it yielded `path`: a directory is opened (depth first).
Advance(s, f, path, src, patterns) ==
    LET top == Len(s)
        rest == [s EXCEPT ![top] = @ \ {path}]
    IN  PopDone(IF FileType(f, path) = "dir"
                THEN Append(rest, Entries(f, path, src, patterns))
                ELSE rest)

\* copy_template's error before the main loop, "" when there is none:
\* `made` is the result of create_dir_all(dest_dir), `found` the pre-flight's.
BeginError(f, made, found, src, patterns, wmode) ==
    IF ~IsDir(f, src) THEN "SourceNotDir"
    ELSE IF ~made.ok THEN "CreateDestFailed"
    ELSE IF ~build_globset_ok(patterns) THEN "InvalidPattern"
    ELSE IF wmode = "NoOverwrite" /\ found # {} THEN "FilesWouldBeOverwritten"
    ELSE ""

BeginApply(made, found, err) ==
    /\ fs' = IF err = "SourceNotDir" THEN fs ELSE made.fs
    /\ fs_prev' = fs
    /\ collisions' = IF err = "FilesWouldBeOverwritten" THEN found ELSE {}
    /\ IF err # ""
       THEN /\ result' = err
            /\ pc' = "returned"
            /\ UNCHANGED << copy_mode, stack >>
       ELSE /\ copy_mode' = write_mode
            /\ stack' = PopDone(<< Entries(made.fs, source_dir, source_dir, exclude) >>)
            /\ result' = "none"
            /\ pc' = "walk"

BeginWith(made, found) ==
    BeginApply(made, found, BeginError(fs, made, found, source_dir, exclude, write_mode))

\* copy_template up to the main loop: the source check, the creation of the
\* destination, the compilation of the patterns, the NoOverwrite pre-flight.
CopyTemplateBegin ==
    /\ pc = "copy_template"
    /\ BeginWith(CreateDirAll(fs, dest_dir),
                 IF IsDir(fs, source_dir) /\ build_globset_ok(exclude)
                 THEN collect_collisions(fs, source_dir, dest_dir, exclude) ELSE {})
    /\ UNCHANGED << fs0, source_dir, dest_dir, exclude, write_mode, trace, caller, resolveVars, storeVars, initVars >>

WalkApply(out, path) ==
    /\ fs' = out.fs
    /\ fs_prev' = fs
    /\ copy_mode' = out.mode
    /\ trace' = Append(trace, out.ev)
    /\ IF out.go
       THEN /\ stack' = Advance(stack, fs, path, source_dir, exclude)
            /\ UNCHANGED << pc, result >>
       ELSE /\ result' = out.err
            /\ pc' = "returned"
            /\ UNCHANGED stack

\* One iteration of the main loop: the iterator yields an entry of the
\* directory on top (in the order read_dir gives, which is not fixed), and
\* the entry is handled; the answer to a prompt is the user's.
WalkStep ==
    /\ pc = "walk"
    /\ stack # << >>
    /\ \E path \in stack[Len(stack)] :
         \E choice \in PromptOutcomes :
           WalkApply(HandleEntry(fs, copy_mode, path, choice, source_dir, dest_dir), path)
    /\ UNCHANGED << fs0, source_dir, dest_dir, exclude, write_mode, collisions, caller, resolveVars, storeVars, initVars >>

\* The iterator is exhausted: Ok(()).
CopyTemplateReturn ==
    /\ pc = "walk"
    /\ stack = << >>
    /\ result' = "Ok"
    /\ pc' = "returned"
    /\ UNCHANGED << fs, fs0, fs_prev, source_dir, dest_dir, exclude, write_mode,
                    copy_mode, stack, trace, collisions, caller, resolveVars, storeVars, initVars >>

\* A later invocation with the same arguments: ResolvedOptions, and with it
\* write_mode, is computed anew and copy_mode is a fresh local.
CopyTemplateAgain ==
    /\ pc = "returned"
    /\ caller = "direct"
    /\ pc' = "copy_template"
    /\ fs0' = fs
    /\ fs_prev' = fs
    /\ trace' = << >>
    /\ result' = "none"
    /\ collisions' = {}
    /\ copy_mode' = "unset"
    /\ stack' = << >>
    /\ UNCHANGED << fs, source_dir, dest_dir, exclude, write_mode, caller, resolveVars, storeVars, initVars >>

----------------------------------------------------------------------------
(* ResolvedOptions::build *)

GitModes == {"Fresh", "Preserve", "NoGit"}

\* Option<T>: Some(v), and None (which carries a filler of v's type).
Some(v) == [some |-> TRUE, val |-> v]
NoMode == [some |-> FALSE, val |-> ""]
NoList == [some |-> FALSE, val |-> << >>]

\* flag.or_else(|| template_value).unwrap_or_else(|| config_value), were the
\* template's value to win over the flag.
resolve_option_template_first(flag, template_value, config_value) ==
    IF template_value.some THEN template_value.val
    ELSE IF flag.some THEN flag.val
    ELSE config_value

\* flag.or_else(|| template_value).unwrap_or_else(|| config_value)
resolve_option(flag, template_value, config_value) ==
    IF flag.some THEN flag.val
    ELSE IF template_value.some THEN template_value.val
    ELSE config_value

\* The exclude list, were the template's list to replace the config's.
build_exclude_template_replaces(config, template) ==
    IF template.exclude.some THEN template.exclude.val ELSE config.exclude

\* config.exclude.clone(), extended by the template's list when it has one.
build_exclude(config, template) ==
    IF template.exclude.some THEN config.exclude \o template.exclude.val
    ELSE config.exclude

\* ResolvedOptions::build; the fields cmd_init does not branch on (commit,
\* no_cache, git_ref, update_on_init) are left out.
build(config, template, git_flag, write_mode_flag) ==
    [git |-> resolve_option(git_flag, template.git, config.git),
     pre_init |-> template.pre_init,
     post_init |-> template.post_init,
     exclude |-> build_exclude(config, template),
     write_mode |-> resolve_option(write_mode_flag, template.write_mode, config.write_mode)]

\* Before build has run.
NotBuilt ==
    [git |-> "unset", pre_init |-> "unset", post_init |-> "unset",
     exclude |-> << >>, write_mode |-> "unset"]

\* Exclude lists of a Config and of a Template: the default, one with a
\* repeated pattern, the empty one.
ConfigExcludes ==
    { << <<"node_modules">>, <<".DS_Store">> >>, << <<"dist">>, <<"dist">> >>, << >> }

TemplateExcludes ==
    { NoList, Some(<< >>), Some(<< <<"dist">> >>),
      Some(<< <<"node_modules">>, <<"*.log">> >>) }

\* The arguments of one call of build.
BuildArguments ==
    [config : [git : GitModes, write_mode : {"Strict", "Overwrite", "Ask"},
               exclude : ConfigExcludes],
     template : [git : {NoMode} \cup { Some(g) : g \in GitModes },
                 write_mode : {NoMode} \cup { Some(w) : w \in {"Strict", "NoOverwrite", "SkipOverwrite"} },
                 exclude : TemplateExcludes,
                 pre_init : {"none"}, post_init : {"none"}],
     git_flag : {NoMode} \cup { Some(g) : g \in GitModes },
     write_mode_flag : {NoMode} \cup { Some(w) : w \in {"Strict", "NoOverwrite", "Overwrite", "Ask"} }]

\* The operations that do not call build leave its variables alone.
NoOptions ==
    [config |-> [git |-> "Fresh", write_mode |-> "Strict", exclude |-> << >>],
     template |-> [git |-> NoMode, write_mode |-> NoMode, exclude |-> NoList,
                   pre_init |-> "none", post_init |-> "none"],
     git_flag |-> NoMode, write_mode_flag |-> NoMode]

\* let resolved = ResolvedOptions::build(&config, template, git_flag, write_mode_flag);
Build ==
    /\ pc = "build"
    /\ resolved' = build(options.config, options.template,
                         options.git_flag, options.write_mode_flag)
    /\ pc' = "built"
    /\ UNCHANGED << fs, caller, copyVars, initVars, options, storeVars >>

----------------------------------------------------------------------------
(* The files of the configuration directory, and save_to_path *)

REGISTRY_VERSION == 2
CONFIG_VERSION == 1

RegistryPath == "templates.json"
ConfigPath == "config.json"

\* path.with_extension("tmp"), were the file written in place.
temp_path_in_place(path) == path

\* path.with_extension("tmp").
temp_path(path) == IF path = RegistryPath THEN "templates.tmp" ELSE "config.tmp"

StorePaths == { RegistryPath, ConfigPath, temp_path(RegistryPath), temp_path(ConfigPath) }

\* A file is the sequence of the pieces written to it; the serialization of
\* a value is written as two pieces, and a piece never written is a hole.
NoFile == [exists |-> FALSE, chunks |-> << >>]
EmptyFile == [exists |-> TRUE, chunks |-> << >>]
Hole == [of |-> "hole", part |-> 0]
Chunk(value, part) == [of |-> value, part |-> part]

\* serde_json::to_string_pretty.
to_string_pretty(value) == << Chunk(value, 1), Chunk(value, 2) >>

CompleteFile(value) == [exists |-> TRUE, chunks |-> to_string_pretty(value)]

\* serde_json::from_str: the text parses when it is a whole serialization.
from_str(chunks) ==
    IF /\ Len(chunks) = 2
       /\ chunks[1].part = 1 /\ chunks[2].part = 2
       /\ chunks[1].of = chunks[2].of
    THEN [ok |-> TRUE, value |-> chunks[1].of]
    ELSE [ok |-> FALSE, value |-> "none"]

NoDisk == [p \in StorePaths |-> NoFile]

\* File::create: the file is created, or truncated where it exists.
create(d, name) == [d EXCEPT ![name] = EmptyFile]

\* write(2) of the piece `part` of value at its offset.
write_piece(d, name, value, part) ==
    LET old == d[name].chunks
    IN  [d EXCEPT ![name].chunks =
            [k \in 1..(IF Len(old) > part THEN Len(old) ELSE part) |->
                IF k = part THEN Chunk(value, part)
                ELSE IF k <= Len(old) THEN old[k] ELSE Hole]]

\* fs::rename: fails when `from` does not exist; replaces `to` in one step.
rename(d, from, to) ==
    IF ~d[from].exists THEN [ok |-> FALSE, disk |-> d]
    ELSE IF from = to THEN [ok |-> TRUE, disk |-> d]
    ELSE [ok |-> TRUE, disk |-> [d EXCEPT ![to] = d[from], ![from] = NoFile]]

\* save_to_path run to its end with nothing else running: fs::write of the
\* temporary file, then the rename.
save_to_path(d, value, path) ==
    rename(write_piece(write_piece(create(d, temp_path(path)), temp_path(path), value, 1),
                       temp_path(path), value, 2),
           temp_path(path), path).disk

----------------------------------------------------------------------------
(* Registry and Config *)

TemplateNames == {"a", "b", "c"}

\* A location, or a path given on the command line: a scheme ("" for a
\* file system path) and the last segment.
Location(scheme, base) == [scheme |-> scheme, base |-> base]

\* utilities::is_git_url.
is_git_url(path) == path.scheme \in {"https://", "http://", "git@", "git://"}

\* The directories that exist; canonicalize() fails for every other path.
ExistingDirs == {"a", "b"}
canonicalize_ok(path) == path.scheme = "" /\ path.base \in ExistingDirs

\* trim_end_matches(".git") of the last segment.
TrimDotGit(base) == IF base = "b.git" THEN "b" ELSE base

NoDescription == "None"

Template(name, location, description) ==
    [name |-> name, location |-> location, description |-> description]

\* Registry::new.
Registry_new == [version |-> REGISTRY_VERSION, templates |-> << >>]

\* Registry::load_from_path.
Registry_load_from_path(d, path) ==
    IF ~d[path].exists THEN [err |-> "", value |-> Registry_new]
    ELSE IF ~from_str(d[path].chunks).ok THEN [err |-> "ParseError", value |-> "none"]
    ELSE IF from_str(d[path].chunks).value.version # REGISTRY_VERSION
    THEN [err |-> "UnsupportedRegistryVersion", value |-> "none"]
    ELSE [err |-> "", value |-> from_str(d[path].chunks).value]

\* Registry::load: load_from_path, and a save when the file does not exist.
Registry_load(d) ==
    LET loaded == Registry_load_from_path(d, RegistryPath)
    IN  [err |-> loaded.err, value |-> loaded.value,
         disk |-> IF loaded.err = "" /\ ~d[RegistryPath].exists
                  THEN save_to_path(d, loaded.value, RegistryPath) ELSE d]

\* Registry::get(name).is_some().
Registered(registry, name) ==
    \E i \in DOMAIN registry.templates : registry.templates[i].name = name

\* iter().position(|tmpl| tmpl.name == name).
Position(registry, name) ==
    CHOOSE i \in DOMAIN registry.templates :
        /\ registry.templates[i].name = name
        /\ \A j \in 1..(i - 1) : registry.templates[j].name # name

\* Registry::add, were the name not looked up.
add_unchecked(registry, template) ==
    [err |-> "", value |-> [registry EXCEPT !.templates = Append(@, template)]]

\* Registry::add.
add(registry, template) ==
    IF Registered(registry, template.name) THEN [err |-> "TemplateExists", value |-> registry]
    ELSE [err |-> "", value |-> [registry EXCEPT !.templates = Append(@, template)]]

\* Registry::remove.
remove(registry, name) ==
    IF ~Registered(registry, name) THEN [err |-> "TemplateNotFound", value |-> registry]
    ELSE [err |-> "",
          value |-> [registry EXCEPT !.templates =
                        SubSeq(@, 1, Position(registry, name) - 1)
                        \o SubSeq(@, Position(registry, name) + 1, Len(@))]]

\* The loop of cmd_remove, were an unknown name passed over.
RECURSIVE remove_each_skipping_unknown(_, _)
remove_each_skipping_unknown(registry, names) ==
    IF names = << >> THEN [err |-> "", value |-> registry]
    ELSE remove_each_skipping_unknown(remove(registry, Head(names)).value, Tail(names))

\* The loop of cmd_remove: `registry.remove(name)?` for each name in turn.
RECURSIVE remove_each(_, _)
remove_each(registry, names) ==
    IF names = << >> THEN [err |-> "", value |-> registry]
    ELSE IF remove(registry, Head(names)).err # "" THEN remove(registry, Head(names))
    ELSE remove_each(remove(registry, Head(names)).value, Tail(names))

\* The result of a command: the error ("" for Ok) and the disk it leaves.
Done(err, d) == [err |-> err, disk |-> d]

\* A command that has loaded the registry, changed it in memory and, when
\* that gave no error, saves it.
SaveUnlessError(loaded, changed) ==
    IF changed.err # "" THEN Done(changed.err, loaded.disk)
    ELSE Done("", save_to_path(loaded.disk, changed.value, RegistryPath))

\* The name cmd_add gives a template when none is given.
DefaultName(path) == IF is_git_url(path) THEN TrimDotGit(path.base) ELSE path.base

\* cmd_add(path, name, ..): cached_ok says whether git_cache::ensure_cached
\* succeeds; name is "None" or the name given.
cmd_add(d, path, name, cached_ok) ==
    IF is_git_url(path) /\ ~cached_ok THEN Done("GitFailed", d)
    ELSE IF ~is_git_url(path) /\ ~canonicalize_ok(path) THEN Done("PathNotFound", d)
    ELSE IF Registry_load(d).err # "" THEN Done(Registry_load(d).err, d)
    ELSE SaveUnlessError(
             Registry_load(d),
             add(Registry_load(d).value,
                 Template(IF name = "None" THEN DefaultName(path) ELSE name, path, NoDescription)))

\* ChangeOptions: a field is not given (some = FALSE) or given with its new
\* value; the description may be given as None.
NotGiven == [some |-> FALSE, val |-> "none"]
Given(v) == [some |-> TRUE, val |-> v]
is_empty(changes) ==
    ~changes.name.some /\ ~changes.description.some /\ ~changes.location.some

\* The assignments of cmd_change, were a description that is not given
\* taken as a description to clear.
ChangeTemplate_clears_description(registry, i, changes) ==
    IF changes.location.some /\ ~canonicalize_ok(changes.location.val)
    THEN [err |-> "PathNotFound", value |-> registry]
    ELSE [err |-> "",
          value |-> [registry EXCEPT !.templates[i] =
              Template(IF changes.name.some THEN changes.name.val ELSE @.name,
                       IF changes.location.some THEN changes.location.val ELSE @.location,
                       IF changes.description.some THEN changes.description.val
                       ELSE NoDescription)]]

\* The assignments of cmd_change to the template at position i; the
\* location is canonicalized, and the error of that returned.
ChangeTemplate(registry, i, changes) ==
    IF changes.location.some /\ ~canonicalize_ok(changes.location.val)
    THEN [err |-> "PathNotFound", value |-> registry]
    ELSE [err |-> "",
          value |-> [registry EXCEPT !.templates[i] =
              Template(IF changes.name.some THEN changes.name.val ELSE @.name,
                       IF changes.location.some THEN changes.location.val ELSE @.location,
                       IF changes.description.some THEN changes.description.val
                       ELSE @.description)]]

\* The checks of cmd_change on the loaded registry, then the assignments.
Change(registry, template_name, changes) ==
    IF ~Registered(registry, template_name) THEN [err |-> "TemplateNotFound", value |-> registry]
    ELSE IF changes.name.some /\ Registered(registry, changes.name.val)
    THEN [err |-> "TemplateExists", value |-> registry]
    ELSE ChangeTemplate(registry, Position(registry, template_name), changes)

\* cmd_change(template_name, changes).
cmd_change(d, template_name, changes) ==
    IF is_empty(changes) THEN Done("NoChanges", d)
    ELSE IF Registry_load(d).err # "" THEN Done(Registry_load(d).err, d)
    ELSE SaveUnlessError(Registry_load(d), Change(Registry_load(d).value, template_name, changes))

\* cmd_remove(template_names).
cmd_remove(d, template_names) ==
    IF Registry_load(d).err # "" THEN Done(Registry_load(d).err, d)
    ELSE SaveUnlessError(Registry_load(d), remove_each(Registry_load(d).value, template_names))

\* What a command was and did: its arguments, the disk before it, its error.
NoCommand == [op |-> "none", args |-> << >>, before |-> NoDisk, err |-> ""]
Command(op, args, before, err) == [op |-> op, args |-> args, before |-> before, err |-> err]

CommandApply(op, args, done) ==
    /\ disk' = done.disk
    /\ last' = Command(op, args, disk, done.err)

\* The paths given to cmd_add: a directory, a path that does not exist, a
\* URL, and a URL of a scheme is_git_url does not know.
AddPaths ==
    { Location("", "a"), Location("", "gone"),
      Location("https://", "b.git"), Location("ssh://", "b.git") }

\* The names given to cmd_add: none, or one of two; the name c is never
\* registered.
AddNames == {"None", "a", "b"}

CmdAdd ==
    /\ pc = "registry"
    /\ \E path \in AddPaths, name \in AddNames, cached_ok \in BOOLEAN :
          /\ (is_git_url(path) \/ cached_ok)
          /\ CommandApply("add", << path, name >>, cmd_add(disk, path, name, cached_ok))
    /\ UNCHANGED << fs, pc, caller, copyVars, initVars, resolveVars, procs, concurrency >>

ChangeArguments ==
    [name : {NotGiven} \cup { Given(n) : n \in AddNames \ {"None"} },
     location : { NotGiven, Given(Location("", "b")), Given(Location("", "gone")) },
     description : { NotGiven, Given("d") }]

CmdChange ==
    /\ pc = "registry"
    /\ \E template_name \in TemplateNames, changes \in ChangeArguments :
          CommandApply("change", << template_name, changes >>,
                       cmd_change(disk, template_name, changes))
    /\ UNCHANGED << fs, pc, caller, copyVars, initVars, resolveVars, procs, concurrency >>

\* The lists given to cmd_remove: one name, or two (the same name twice
\* included).
RemoveLists ==
    { << n >> : n \in TemplateNames } \cup { << n, m >> : n, m \in TemplateNames }

CmdRemove ==
    /\ pc = "registry"
    /\ \E template_names \in RemoveLists :
          CommandApply("remove", template_names, cmd_remove(disk, template_names))
    /\ UNCHANGED << fs, pc, caller, copyVars, initVars, resolveVars, procs, concurrency >>

----------------------------------------------------------------------------
(* Config::load_from_path *)

\* Config::new.
Config_new ==
    [version |-> CONFIG_VERSION, git |-> "Fresh",
     exclude |-> << <<"node_modules">>, <<".DS_Store">> >>,
     write_mode |-> "Strict", color |-> TRUE]

\* The Config serde makes of the object of a config file: a missing field
\* takes its default, and version has none.
Deserialize(object) ==
    IF ~object.version.some THEN [ok |-> FALSE, value |-> "none"]
    ELSE [ok |-> TRUE,
          value |-> [version |-> object.version.val,
                     git |-> IF ~object.git.some THEN "Fresh" ELSE object.git.val,
                     exclude |-> IF ~object.exclude.some
                                 THEN << <<"node_modules">>, <<".DS_Store">> >>
                                 ELSE object.exclude.val,
                     write_mode |-> IF ~object.write_mode.some THEN "Strict"
                                    ELSE object.write_mode.val,
                     color |-> IF ~object.color.some THEN TRUE ELSE object.color.val]]

\* The object serde writes for a Config: every field is there.
ConfigObject(config) ==
    [version |-> Given(config.version), git |-> Given(config.git),
     exclude |-> Given(config.exclude), write_mode |-> Given(config.write_mode),
     color |-> Given(config.color)]

\* The version check of Config::load_from_path, were it the registry's.
CheckVersion_exact(config) ==
    IF config.version # CONFIG_VERSION
    THEN [err |-> "UnsupportedConfigVersion", value |-> "none"]
    ELSE [err |-> "", value |-> config]

\* `if config.version > CONFIG_VERSION`.
CheckVersion(config) ==
    IF config.version > CONFIG_VERSION
    THEN [err |-> "UnsupportedConfigVersion", value |-> "none"]
    ELSE [err |-> "", value |-> config]

\* Config::load_from_path.
Config_load_from_path(d, path) ==
    IF ~d[path].exists THEN [err |-> "", value |-> Config_new]
    ELSE IF ~from_str(d[path].chunks).ok THEN [err |-> "ParseError", value |-> "none"]
    ELSE IF ~Deserialize(from_str(d[path].chunks).value).ok
    THEN [err |-> "ParseError", value |-> "none"]
    ELSE CheckVersion(Deserialize(from_str(d[path].chunks).value).value)

\* One call of Config::load_from_path on the config file.
ConfigLoad ==
    /\ pc = "config"
    /\ pc' = "config_loaded"
    /\ last' = Command("load_from_path", << Config_load_from_path(disk, ConfigPath).value >>,
                       disk, Config_load_from_path(disk, ConfigPath).err)
    /\ UNCHANGED << fs, caller, copyVars, initVars, resolveVars, disk, procs, concurrency >>

----------------------------------------------------------------------------
(* Invocations that save, step by step *)

\* The invocations: two cmd_add of different templates, and one start of
\* the tool, which loads the config (Config::load saves what it loaded).
Invocations == {"add a", "add b", "config"}

PathOf(i) == IF i = "config" THEN ConfigPath ELSE RegistryPath

TemplateOf(i) ==
    Template(IF i = "add a" THEN "a" ELSE "b", Location("", "a"), NoDescription)

\* An invocation: where it is, the value it is saving, the file its open
\* descriptor is on ("none", "temp", "target", or "gone" once the file was
\* replaced), and what it does when the save is done.
NotStarted == [pc |-> "new", saving |-> "none", fd |-> "none", next |-> "none", err |-> ""]

InFlight == { i \in Invocations : procs[i].pc \in {"open", "write1", "write2", "rename"} }

Ended(i, err) == [procs[i] EXCEPT !.pc = IF err = "" THEN "done" ELSE "failed",
                                  !.err = err, !.fd = "none", !.saving = "none"]

Saving(i, value, next) ==
    [procs[i] EXCEPT !.pc = "open", !.saving = value, !.next = next]

\* cmd_add after Registry::load: add, then save.
AddThenSave(i, registry) ==
    IF add(registry, TemplateOf(i)).err # "" THEN Ended(i, add(registry, TemplateOf(i)).err)
    ELSE Saving(i, add(registry, TemplateOf(i)).value, "return")

\* The start of an invocation up to its first save: the file is read and
\* parsed.  Registry::load saves a registry it did not find before cmd_add
\* goes on; Config::load saves whatever it loaded.
Started(i, d) ==
    IF i = "config"
    THEN IF Config_load_from_path(d, ConfigPath).err # ""
         THEN Ended(i, Config_load_from_path(d, ConfigPath).err)
         ELSE Saving(i, ConfigObject(Config_load_from_path(d, ConfigPath).value), "return")
    ELSE IF Registry_load_from_path(d, RegistryPath).err # ""
         THEN Ended(i, Registry_load_from_path(d, RegistryPath).err)
         ELSE IF ~d[RegistryPath].exists
         THEN Saving(i, Registry_load_from_path(d, RegistryPath).value, "add")
         ELSE AddThenSave(i, Registry_load_from_path(d, RegistryPath).value)

Start ==
    /\ pc = "save"
    /\ \E i \in Invocations :
          /\ procs[i].pc = "new"
          /\ Cardinality(InFlight) < concurrency
          /\ procs' = [procs EXCEPT ![i] = Started(i, disk)]
    /\ UNCHANGED << fs, pc, caller, copyVars, initVars, resolveVars, disk, concurrency, last >>

\* The name of the file a descriptor of the invocation i is on.
FdName(i) == IF procs[i].fd = "temp" THEN temp_path(PathOf(i)) ELSE PathOf(i)

\* fs::write, File::create: the temporary file is created or truncated.
OpenTemp ==
    /\ pc = "save"
    /\ \E i \in Invocations :
          /\ procs[i].pc = "open"
          /\ disk' = create(disk, temp_path(PathOf(i)))
          /\ procs' = [procs EXCEPT ![i].pc = "write1", ![i].fd = "temp"]
    /\ UNCHANGED << fs, pc, caller, copyVars, initVars, resolveVars, concurrency, last >>

\* fs::write, write_all: one write(2); the descriptor is closed after the
\* last.  A write to a file that was replaced is seen by nobody.
WritePiece ==
    /\ pc = "save"
    /\ \E i \in Invocations :
          /\ procs[i].pc \in {"write1", "write2"}
          /\ disk' = IF procs[i].fd = "gone" THEN disk
                     ELSE write_piece(disk, FdName(i), procs[i].saving,
                                      IF procs[i].pc = "write1" THEN 1 ELSE 2)
          /\ procs' = IF procs[i].pc = "write1" THEN [procs EXCEPT ![i].pc = "write2"]
                      ELSE [procs EXCEPT ![i].pc = "rename", ![i].fd = "none"]
    /\ UNCHANGED << fs, pc, caller, copyVars, initVars, resolveVars, concurrency, last >>

\* The descriptors after rename(temp, path): one on the temporary file is
\* now on the file at path, one on the file that was at path is on no file.
AfterRename(ps, path) ==
    [j \in Invocations |->
        IF PathOf(j) # path \/ temp_path(path) = path THEN ps[j]
        ELSE IF ps[j].fd = "temp" THEN [ps[j] EXCEPT !.fd = "target"]
        ELSE IF ps[j].fd = "target" THEN [ps[j] EXCEPT !.fd = "gone"]
        ELSE ps[j]]

\* What the invocation does after its save.
AfterSave(i) ==
    IF procs[i].next = "add" THEN AddThenSave(i, procs[i].saving) ELSE Ended(i, "")

RenameApply(i, renamed) ==
    /\ disk' = renamed.disk
    /\ procs' = IF renamed.ok
                THEN AfterRename([procs EXCEPT ![i] = AfterSave(i)], PathOf(i))
                ELSE [procs EXCEPT ![i] = Ended(i, "RenameFailed")]

\* fs::rename(temp_path, path), and what follows the save.
RenameTemp ==
    /\ pc = "save"
    /\ \E i \in Invocations :
          /\ procs[i].pc = "rename"
          /\ RenameApply(i, rename(disk, temp_path(PathOf(i)), PathOf(i)))
    /\ UNCHANGED << fs, pc, caller, copyVars, initVars, resolveVars, concurrency, last >>

\* The process of an invocation dies in the middle of a save.
Crash ==
    /\ pc = "save"
    /\ \E i \in InFlight :
          procs' = [procs EXCEPT ![i].pc = "crashed", ![i].fd = "none"]
    /\ UNCHANGED << fs, pc, caller, copyVars, initVars, resolveVars, disk, concurrency, last >>

NoProcs == [i \in Invocations |-> NotStarted]

\* The operations on the file system of a template leave these alone.
StoreIdle ==
    /\ disk = NoDisk
    /\ procs = NoProcs
    /\ concurrency = 0
    /\ last = NoCommand

----------------------------------------------------------------------------
(* Inputs of the copier model *)

EmptyFs ==
    [p \in AllPaths |->
        IF p \in {Root, ExternalDir, HomeDir} THEN DirNode
        ELSE IF p = <<"home", ".profile">> THEN FileNode("P")
        ELSE NoNode]

\* The file system with the listed entries (a function from paths to nodes) on top of f.
With(f, entries) == [p \in DOMAIN f |-> IF p \in DOMAIN entries THEN entries[p] ELSE f[p]]

\* The entries under `root` given by a function from relative paths to nodes.
Under(root, tree) == [p \in { root \o r : r \in DOMAIN tree } |-> tree[StripPrefix(root, p)]]

None == [p \in {} |-> NoNode]

\* An external file that exists (a destination symlink may point to it);
\* /e/y does not exist.
External == (<<"e", "x">> :> FileNode("X"))

\* Source trees of the conflict inputs: a.txt is a file or a symlink, b.txt
\* and src/main.txt are optional files.
ConflictSources ==
    { (<< >> :> DirNode) @@ a @@ b @@ s :
        a \in { (<<"a.txt">> :> FileNode("A")), (<<"a.txt">> :> LinkNode(<<"b.txt">>)) },
        b \in { None, (<<"b.txt">> :> FileNode("B")) },
        s \in { None, (<<"src">> :> DirNode) @@ (<<"src", "main.txt">> :> FileNode("M")) } }

\* Destination trees of the conflict inputs: at a.txt nothing, a file, a
\* symlink to an existing file, a dangling symlink or a directory.
ConflictDests ==
    { (<< >> :> DirNode) @@ a @@ b @@ s :
        a \in { None, (<<"a.txt">> :> FileNode("old")),
                (<<"a.txt">> :> LinkNode(<<"/", "e", "x">>)),
                (<<"a.txt">> :> LinkNode(<<"/", "e", "y">>)),
                (<<"a.txt">> :> DirNode) },
        b \in { None, (<<"b.txt">> :> FileNode("old")) },
        s \in { None, (<<"src">> :> FileNode("old")),
                (<<"src">> :> DirNode) @@ (<<"src", "main.txt">> :> FileNode("old")) } }

ConflictExcludes == { << >>, << <<"b.txt">> >> }

DefaultExclude == << <<"node_modules">>, <<".DS_Store">> >>

\* The tree of the specification's scenario, with optional extras: a log file
\* and a nested .git directory, and a symlink.
ScenarioTree ==
    (<< >> :> DirNode)
    @@ (<<"src">> :> DirNode) @@ (<<"src", "main.txt">> :> FileNode("M"))
    @@ (<<".git">> :> DirNode) @@ (<<".git", "config">> :> FileNode("G"))
    @@ (<<"node_modules">> :> DirNode) @@ (<<"node_modules", "x">> :> FileNode("N"))
    @@ (<<"dist">> :> DirNode) @@ (<<"dist", "bundle.js">> :> FileNode("J"))
    @@ (<<"deep">> :> DirNode) @@ (<<"deep", "nested">> :> DirNode)
    @@ (<<"deep", "nested", "f.txt">> :> FileNode("F"))

\* More symlinks at `link`: to a directory of the template (relative and
\* absolute), to a directory and to a file outside it, to a file of the
\* template by a relative path that leaves the template and comes back, and
\* to a path outside it that does not exist.
DirectoryLinks ==
    { (<<"link">> :> LinkNode(t)) :
        t \in { <<"deep">>, <<"/", "t", "src">>, <<"/", "e">>, <<"..", "e", "x">>,
                <<"..", "t", "dist", "bundle.js">>, <<"/", "e", "y">> } }

\* deep/nested/f.txt as a symlink with an absolute target inside the
\* template: a file, a directory above the link, the template's root.
NestedLinks ==
    { (<<"deep", "nested", "f.txt">> :> LinkNode(t)) :
        t \in { <<"/", "t", "dist", "bundle.js">>, <<"/", "t", "deep">>, <<"/", "t">> } }

ExclusionSources ==
    { ScenarioTree @@ x @@ l :
        x \in { None, (<<"a.log">> :> FileNode("L")) @@ (<<"deep", ".git">> :> DirNode)
                      @@ (<<"deep", ".git", "config">> :> FileNode("G2")) },
        l \in { None, (<<"link">> :> LinkNode(<<"dist", "bundle.js">>)) } }
    \cup { ScenarioTree @@ l : l \in DirectoryLinks }
    \cup { l @@ ScenarioTree : l \in NestedLinks }

ExclusionExcludes ==
    { DefaultExclude \o x :
        x \in { << >>, << <<"dist">> >>, << <<"*.log">> >>, << <<"deep", "nested">> >>,
                << <<"src", "main.txt">> >>, << <<"nested">> >>, << InvalidGlob >> } }

\* Destinations of the exclusion inputs: absent, or an empty directory.
EmptyDests == { None, (<< >> :> DirNode) }

\* The copier model calls copy_template directly: cmd_init's inputs are unused.
NoEnv ==
    [registered |-> TRUE, location_is_url |-> FALSE,
     target_path |-> WorkDir, git |-> "NoGit", write_mode |-> "Strict",
     exclude |-> << >>, pre_init |-> "none", post_init |-> "none",
     identity |-> TRUE, git_fails |-> "none"]

InitCopyCommon ==
    /\ fs0 = fs
    /\ fs_prev = fs
    /\ pc = "copy_template"
    /\ source_dir = TemplateDir
    /\ dest_dir = WorkDir
    /\ copy_mode = "unset"
    /\ stack = << >>
    /\ trace = << >>
    /\ result = "none"
    /\ collisions = {}
    /\ caller = "direct"
    /\ fs_init = EmptyFs
    /\ env = NoEnv
    /\ target_canonical = << "?" >>
    /\ steps = << >>
    /\ init_result = "none"
    /\ options = NoOptions
    /\ resolved = NotBuilt
    /\ StoreIdle

InitConflict ==
    /\ \E s \in ConflictSources, d \in ConflictDests :
          fs = With(With(With(EmptyFs, External), Under(TemplateDir, s)), Under(WorkDir, d))
    /\ exclude \in ConflictExcludes
    /\ write_mode \in WriteModes

InitExclusion ==
    /\ \E s \in ExclusionSources, d \in EmptyDests :
          fs = With(With(With(EmptyFs, External), Under(TemplateDir, s)), Under(WorkDir, d))
    /\ exclude \in ExclusionExcludes
    /\ write_mode \in {"Strict", "NoOverwrite"}

InitCopy == (InitConflict \/ InitExclusion) /\ InitCopyCommon

NextCopy ==
    \/ CopyTemplateBegin
    \/ WalkStep
    \/ CopyTemplateReturn
    \/ CopyTemplateAgain

SpecCopy == InitCopy /\ [][NextCopy]_vars

----------------------------------------------------------------------------
(* cmd_init *)

\* utilities::is_dangerous_path, with HOME set to HomeDir.
is_dangerous_path(path) == path = Root \/ path = HomeDir

\* is_dir_empty under a wrong guess: entries whose name starts with a dot
\* are not counted.
is_dir_empty_ignoring_hidden(f, path) ==
    Children(f, Stat(f, path).path) \subseteq { path \o <<".git">> }

\* utilities::is_dir_empty: read_dir(path).next().is_none()
is_dir_empty(f, path) == Children(f, Stat(f, path).path) = {}

\* utilities::run_hook: `sh -c command` in working_dir.  What a hook does is
\* the user's: "touch" writes a file and exits 0, "clean" empties the
\* directory and exits 0, "fail" exits non-zero.
run_hook(f, command, working_dir) ==
    IF command = "touch"
    THEN [ok |-> TRUE, fs |-> [f EXCEPT ![working_dir \o <<"hook.out">>] = FileNode("H")]]
    ELSE IF command = "clean"
    THEN [ok |-> TRUE,
          fs |-> [p \in DOMAIN f |->
                    IF IsPrefix(working_dir, p) /\ p # working_dir THEN NoNode ELSE f[p]]]
    ELSE [ok |-> command # "fail", fs |-> f]

\* git init in target_path: creates the repository directory.
GitInit(f, target_path) ==
    With(f, (target_path \o <<".git">> :> DirNode)
            @@ (target_path \o <<".git", "config">> :> FileNode("C")))

\* The result of a sequence of git commands: what was run, the error if any.
GitRun(f, err, log) == [fs |-> f, err |-> err, log |-> log]

\* init_and_commit, were the identity looked at only when committing.
init_and_commit_identity_last(f, target_path, identity, fails) ==
    IF fails = "init" THEN GitRun(f, "GitFailed", << "git init" >>)
    ELSE IF fails = "add"
    THEN GitRun(GitInit(f, target_path), "GitFailed", << "git init", "git add" >>)
    ELSE IF ~identity
    THEN GitRun(GitInit(f, target_path), "GitIdentityMissing",
                << "git init", "git add", "git config" >>)
    ELSE GitRun(GitInit(f, target_path), IF fails = "commit" THEN "GitFailed" ELSE "",
                << "git init", "git add", "git config", "git commit" >>)

\* git::init_and_commit: check_user_config, init, add -A, commit.
init_and_commit(f, target_path, identity, fails) ==
    IF ~identity THEN GitRun(f, "GitIdentityMissing", << "git config" >>)
    ELSE IF fails = "init" THEN GitRun(f, "GitFailed", << "git config", "git init" >>)
    ELSE IF fails = "add"
    THEN GitRun(GitInit(f, target_path), "GitFailed", << "git config", "git init", "git add" >>)
    ELSE GitRun(GitInit(f, target_path), IF fails = "commit" THEN "GitFailed" ELSE "",
                << "git config", "git init", "git add", "git commit" >>)

\* git::add_and_commit, for a target that already holds a repository.
add_and_commit(f, target_path, identity, fails) ==
    IF ~identity THEN GitRun(f, "GitIdentityMissing", << "git config" >>)
    ELSE IF fails = "add" THEN GitRun(f, "GitFailed", << "git config", "git add" >>)
    ELSE GitRun(f, IF fails = "commit" THEN "GitFailed" ELSE "",
                << "git config", "git add", "git commit" >>)

\* The repository configuration after `git clone` or `git remote set-url`:
\* what the remote origin points to.
OriginConfig(origin) ==
    FileNode(IF origin = "location" THEN "origin=location" ELSE "origin=template_path")

\* git::clone_local: `git clone source dest`.  git refuses a destination
\* that is not an empty directory and a source that is no repository;
\* otherwise the destination gets the repository and its work tree, with
\* the source path as its remote origin.
clone_local(f, src, dst, fails) ==
    IF fails = "clone" \/ ~is_dir_empty(f, dst) \/ ~IsDir(f, src \o <<".git">>)
    THEN GitRun(f, "GitFailed", << "git clone" >>)
    ELSE GitRun([p \in DOMAIN f |->
                    IF p = dst \o <<".git", "config">> THEN OriginConfig("template_path")
                    ELSE IF IsPrefix(dst, p) /\ p # dst /\ (src \o StripPrefix(dst, p)) \in DOMAIN f
                    THEN f[src \o StripPrefix(dst, p)] ELSE f[p]],
                "", << "git clone" >>)

\* git::set_remote_url: `git remote set-url origin url` in repo.
set_remote_url(f, repo, fails) ==
    IF fails = "set-url" \/ ~IsDir(f, repo \o <<".git">>)
    THEN GitRun(f, "GitFailed", << "git remote set-url" >>)
    ELSE GitRun([f EXCEPT ![repo \o <<".git", "config">>] = OriginConfig("location")],
                "", << "git remote set-url" >>)

\* cmd_init has returned err.
InitFail(err) ==
    /\ init_result' = err
    /\ pc' = "done"

\* Registry::load and registry.get(template_name).
InitLookup ==
    /\ pc = "cmd_init"
    /\ steps' = Append(steps, "lookup")
    /\ IF env.registered
       THEN pc' = "resolve" /\ UNCHANGED init_result
       ELSE InitFail("TemplateNotFound")
    /\ UNCHANGED << fs, caller, resolveVars, storeVars, copyVars, fs_init, env, target_canonical >>

\* ResolvedOptions::build, resolve_template_path and the check of the
\* template's directory.  A URL is cloned (or found in the cache) first.
InitResolveSource ==
    /\ pc = "resolve"
    /\ steps' = steps \o << "resolve_options", "resolve_source" >>
                      \o (IF env.location_is_url /\ env.git_fails = "clone_repo"
                          THEN << >> ELSE << "source_check" >>)
    /\ IF env.location_is_url /\ env.git_fails = "clone_repo"
       THEN InitFail("GitFailed")
       ELSE IF ~(Exists(fs, TemplateDir) /\ IsDir(fs, TemplateDir))
       THEN InitFail("TemplatePathMissing")
       ELSE pc' = "target" /\ UNCHANGED init_result
    /\ UNCHANGED << fs, caller, resolveVars, storeVars, copyVars, fs_init, env, target_canonical >>

TargetApply(made, canon) ==
    /\ fs' = made.fs
    /\ steps' = steps \o (IF Exists(fs, env.target_path) THEN << >> ELSE << "create_target" >>)
                      \o (IF made.ok /\ canon.st = "found" THEN << "dangerous_check" >> ELSE << >>)
    /\ IF ~made.ok THEN InitFail("CreateTargetFailed") /\ UNCHANGED target_canonical
       ELSE IF canon.st # "found" THEN InitFail("CanonicalizeFailed") /\ UNCHANGED target_canonical
       ELSE /\ target_canonical' = canon.path
            /\ IF is_dangerous_path(canon.path)
               THEN InitFail("DangerousPath")
               ELSE pc' = "pre_init" /\ UNCHANGED init_result

\* The target, were the path checked as given and not as canonicalized.
TargetMade_as_given(made) ==
    TargetApply(made, [st |-> Stat(made.fs, env.target_path).st, path |-> env.target_path])

TargetMade(made) == TargetApply(made, Stat(made.fs, env.target_path))

\* The target: created when it does not exist, canonicalized, refused when
\* it is `/` or the home directory.
InitTarget ==
    /\ pc = "target"
    /\ TargetMade(IF Exists(fs, env.target_path) THEN [ok |-> TRUE, fs |-> fs]
                  ELSE CreateDirAll(fs, env.target_path))
    /\ UNCHANGED << caller, resolveVars, storeVars, copyVars, fs_init, env >>

\* The pre-init hook, were its failure a warning like the post-init hook's.
PreHookApply_warning_only(hook) ==
    /\ fs' = hook.fs
    /\ pc' = "strict_check"
    /\ UNCHANGED init_result

PreHookApply(hook) ==
    /\ fs' = hook.fs
    /\ IF hook.ok THEN pc' = "strict_check" /\ UNCHANGED init_result
       ELSE InitFail("HookFailed")

\* The pre-init hook, when the template has one.
InitPreHook ==
    /\ pc = "pre_init"
    /\ steps' = IF env.pre_init = "none" THEN steps ELSE Append(steps, "pre_init")
    /\ PreHookApply(IF env.pre_init = "none" THEN [ok |-> TRUE, fs |-> fs]
                    ELSE run_hook(fs, env.pre_init, target_canonical))
    /\ UNCHANGED << caller, resolveVars, storeVars, copyVars, fs_init, env, target_canonical >>

\* The Strict check, were it made on the target as cmd_init found it.
InitStrictCheck_target_as_found ==
    /\ pc = "strict_check"
    /\ steps' = IF env.write_mode = "Strict" THEN Append(steps, "strict_check") ELSE steps
    /\ IF env.write_mode = "Strict" /\ ~is_dir_empty(fs_init, target_canonical)
       THEN InitFail("TargetNotEmpty")
       ELSE pc' = "git_mode" /\ UNCHANGED init_result
    /\ UNCHANGED << fs, caller, resolveVars, storeVars, copyVars, fs_init, env, target_canonical >>

\* The Strict check: the target must be empty.
InitStrictCheck ==
    /\ pc = "strict_check"
    /\ steps' = IF env.write_mode = "Strict" THEN Append(steps, "strict_check") ELSE steps
    /\ IF env.write_mode = "Strict" /\ ~is_dir_empty(fs, target_canonical)
       THEN InitFail("TargetNotEmpty")
       ELSE pc' = "git_mode" /\ UNCHANGED init_result
    /\ UNCHANGED << fs, caller, resolveVars, storeVars, copyVars, fs_init, env, target_canonical >>

\* The call of copy_template, were it made in every git mode.
InitCallCopy_every_mode ==
    /\ pc = "git_mode"
    /\ steps' = Append(steps, "copy_template")
    /\ pc' = "copy_template"
    /\ source_dir' = TemplateDir
    /\ dest_dir' = target_canonical
    /\ exclude' = env.exclude
    /\ write_mode' = env.write_mode
    /\ fs0' = fs
    /\ fs_prev' = fs
    /\ UNCHANGED << fs, caller, resolveVars, storeVars, copy_mode, stack, trace, result, collisions,
                    initVars_but_steps >>

\* `match resolved.git`, Fresh and NoGit: copy_template is called.
InitCallCopy ==
    /\ pc = "git_mode"
    /\ env.git \in {"Fresh", "NoGit"}
    /\ steps' = Append(steps, "copy_template")
    /\ pc' = "copy_template"
    /\ source_dir' = TemplateDir
    /\ dest_dir' = target_canonical
    /\ exclude' = env.exclude
    /\ write_mode' = env.write_mode
    /\ fs0' = fs
    /\ fs_prev' = fs
    /\ UNCHANGED << fs, caller, resolveVars, storeVars, copy_mode, stack, trace, result, collisions, initVars_but_steps >>

\* The Preserve arm, were the remote rewritten for every template.
CloneApply_always_sets_remote(cloned, remote) ==
    /\ fs' = IF cloned.err = "" THEN remote.fs ELSE cloned.fs
    /\ IF cloned.err # ""
       THEN steps' = steps \o cloned.log /\ InitFail(cloned.err)
       ELSE /\ steps' = steps \o cloned.log \o remote.log
            /\ IF remote.err # "" THEN InitFail(remote.err)
               ELSE pc' = "post_init" /\ UNCHANGED init_result

\* The Preserve arm: `cloned` is clone_local's result, `remote` what
\* set_remote_url gives after it.
CloneApply(cloned, remote) ==
    /\ fs' = IF cloned.err = "" /\ env.location_is_url THEN remote.fs ELSE cloned.fs
    /\ IF cloned.err # ""
       THEN steps' = steps \o cloned.log /\ InitFail(cloned.err)
       ELSE IF env.location_is_url
       THEN /\ steps' = steps \o cloned.log \o remote.log
            /\ IF remote.err # "" THEN InitFail(remote.err)
               ELSE pc' = "post_init" /\ UNCHANGED init_result
       ELSE /\ steps' = steps \o cloned.log
            /\ pc' = "post_init" /\ UNCHANGED init_result

CloneThenRemote(cloned) ==
    CloneApply(cloned, set_remote_url(cloned.fs, target_canonical, env.git_fails))

\* `match resolved.git`, Preserve: clone_local, then set_remote_url for a URL.
InitClone ==
    /\ pc = "git_mode"
    /\ env.git = "Preserve"
    /\ CloneThenRemote(clone_local(fs, TemplateDir, target_canonical, env.git_fails))
    /\ UNCHANGED << caller, resolveVars, storeVars, copyVars, fs_init, env, target_canonical >>

\* The return of copy_template, were its error dropped.
InitAfterCopy_error_dropped ==
    /\ pc = "returned"
    /\ caller = "cmd_init"
    /\ pc' = IF env.git = "Fresh" THEN "commit" ELSE "post_init"
    /\ UNCHANGED << fs, caller, resolveVars, storeVars, copyVars, initVars >>

\* copy_template has returned to cmd_init: `?` passes its error on.
InitAfterCopy ==
    /\ pc = "returned"
    /\ caller = "cmd_init"
    /\ IF result # "Ok" THEN InitFail(result)
       ELSE /\ pc' = IF env.git = "Fresh" THEN "commit" ELSE "post_init"
            /\ UNCHANGED init_result
    /\ UNCHANGED << fs, caller, resolveVars, storeVars, copyVars, fs_init, env, target_canonical, steps >>

\* The commit step, were its failure not passed on.
CommitApply_failure_ignored(git) ==
    /\ fs' = git.fs
    /\ steps' = steps \o git.log
    /\ pc' = "post_init"
    /\ UNCHANGED init_result

CommitApply(git) ==
    /\ fs' = git.fs
    /\ steps' = steps \o git.log
    /\ IF git.err # "" THEN InitFail(git.err)
       ELSE pc' = "post_init" /\ UNCHANGED init_result

\* Fresh, after the copy: add_and_commit in an existing repository,
\* init_and_commit otherwise.
InitCommit ==
    /\ pc = "commit"
    /\ CommitApply(IF Exists(fs, target_canonical \o <<".git">>)
                   THEN add_and_commit(fs, target_canonical, env.identity, env.git_fails)
                   ELSE init_and_commit(fs, target_canonical, env.identity, env.git_fails))
    /\ UNCHANGED << caller, resolveVars, storeVars, copyVars, fs_init, env, target_canonical >>

\* The post-init hook (its failure is a warning), the message, Ok(()).
InitPostHook ==
    /\ pc = "post_init"
    /\ fs' = IF env.post_init = "none" THEN fs
             ELSE run_hook(fs, env.post_init, target_canonical).fs
    /\ steps' = steps \o (IF env.post_init = "none" THEN << >> ELSE << "post_init" >>)
                      \o << "created" >>
    /\ init_result' = "Ok"
    /\ pc' = "done"
    /\ UNCHANGED << caller, resolveVars, storeVars, copyVars, fs_init, env, target_canonical >>

\* The template a cmd_init of the model instantiates: a repository with two
\* files.
InitTemplate ==
    (<< >> :> DirNode) @@ (<<"a.txt">> :> FileNode("A"))
    @@ (<<"src">> :> DirNode) @@ (<<"src", "main.txt">> :> FileNode("M"))
    @@ (<<".git">> :> DirNode) @@ (<<".git", "config">> :> FileNode("C"))

\* The file systems cmd_init starts in: the target missing, empty, holding a
\* file, holding a repository, being a symlink to the home directory; `/`
\* and the home directory exist.
InitTargets ==
    { None,
      (<< >> :> DirNode),
      (<< >> :> DirNode) @@ (<<"a.txt">> :> FileNode("old")),
      (<< >> :> DirNode) @@ (<<".git">> :> DirNode) @@ (<<".git", "config">> :> FileNode("C")),
      (<< >> :> LinkNode(<<"/", "home">>)) }

InitFileSystems ==
    { With(With(EmptyFs, Under(TemplateDir, InitTemplate)), Under(WorkDir, d)) :
        d \in InitTargets }

InitExcludes == { DefaultExclude, DefaultExclude \o << InvalidGlob >> }

\* The inputs of the common case: a registered local template.
MainEnvs ==
    [registered : {TRUE}, location_is_url : {FALSE},
     target_path : {Root, HomeDir, WorkDir}, git : GitModes, write_mode : WriteModes,
     exclude : InitExcludes, pre_init : {"none", "touch", "clean", "fail"},
     post_init : {"none", "fail"}, identity : {TRUE}, git_fails : {"none"}]

\* The inputs in which git, the identity or the post-init hook matter.
GitEnvs ==
    [registered : {TRUE}, location_is_url : BOOLEAN,
     target_path : {WorkDir}, git : {"Fresh", "Preserve"}, write_mode : {"Overwrite"},
     exclude : {DefaultExclude}, pre_init : {"none"},
     post_init : {"none", "touch", "fail"}, identity : BOOLEAN,
     git_fails : {"none", "clone_repo", "init", "add", "commit", "clone", "set-url"}]

\* The inputs that fail before the target is looked at.
EarlyEnvs ==
    [registered : BOOLEAN, location_is_url : {FALSE},
     target_path : {WorkDir}, git : {"NoGit"}, write_mode : {"Strict"},
     exclude : {DefaultExclude}, pre_init : {"none"},
     post_init : {"none"}, identity : {TRUE}, git_fails : {"none"}]

Init ==
    /\ \/ env \in MainEnvs /\ fs \in InitFileSystems
       \/ env \in GitEnvs /\ fs \in InitFileSystems
       \/ env \in EarlyEnvs /\ fs = With(EmptyFs, Under(WorkDir, (<< >> :> DirNode)))
    /\ fs_init = fs
    /\ pc = "cmd_init"
    /\ caller = "cmd_init"
    /\ target_canonical = << "?" >>
    /\ steps = << >>
    /\ init_result = "none"
    /\ fs0 = fs
    /\ fs_prev = fs
    /\ source_dir = TemplateDir
    /\ dest_dir = << "?" >>
    /\ exclude = << >>
    /\ write_mode = "unset"
    /\ copy_mode = "unset"
    /\ stack = << >>
    /\ trace = << >>
    /\ result = "none"
    /\ collisions = {}
    /\ options = NoOptions
    /\ resolved = NotBuilt
    /\ StoreIdle

Next ==
    \/ InitLookup
    \/ InitResolveSource
    \/ InitTarget
    \/ InitPreHook
    \/ InitStrictCheck
    \/ InitCallCopy
    \/ InitClone
    \/ CopyTemplateBegin
    \/ WalkStep
    \/ CopyTemplateReturn
    \/ InitAfterCopy
    \/ InitCommit
    \/ InitPostHook

Spec == Init /\ [][Next]_vars

----------------------------------------------------------------------------
(* Properties of copy_template, checked under SpecCopy *)

Last(s) == s[Len(s)]

\* The relative paths of the entries the source tree held when copy_template
\* was invoked.
SourceRels == { r \in RelPaths : NodeAt(fs0, source_dir \o r).kind # "none" }

SourceNode(r) == NodeAt(fs0, source_dir \o r)

\* The relative path r is excluded as the specification words it: one of its
\* components matches a pattern, the full relative path matches a pattern,
\* or it is, or lies under, the top-level .git directory.
ExcludedEntry(r) ==
    \/ \E i \in 1..Len(r) : GlobSetIsMatch(exclude, << r[i] >>)
    \/ GlobSetIsMatch(exclude, r)
    \/ r[1] = ".git"

\* r is excluded by a rule that looks at it or at a directory above it: an
\* excluded directory is not descended into.
ExcludedOrPruned(r) ==
    \E k \in 1..Len(r) :
        \/ ExcludedEntry(SubSeq(r, 1, k))
        \/ \E i \in 1..k : r[i] = ".git"

\* The non-excluded source files and symlinks.
CopiedLeaves ==
    { r \in SourceRels : SourceNode(r).kind \in {"file", "symlink"} /\ ~ExcludedOrPruned(r) }

\* The destination held an entry at r when copy_template was invoked.
CollidesAtStart(r) == SymlinkMetadataOk(fs0, dest_dir \o r)

\* The relative paths of the entries under the destination in f.
DestRels(f) == { r \in RelPaths : NodeAt(f, dest_dir \o r).kind # "none" }

\* C1: under NoOverwrite, when a non-excluded source file or symlink maps to
\* a destination path that already exists, copy_template never enters its
\* main loop, returns FilesWouldBeOverwritten, and the file system is the one
\* it was invoked in.
C1_NoOverwritePreflight ==
    ( /\ write_mode = "NoOverwrite"
      /\ IsDir(fs0, source_dir)
      /\ build_globset_ok(exclude)
      /\ \E r \in CopiedLeaves : CollidesAtStart(r) )
    => /\ pc # "walk"
       /\ fs = fs0
       /\ trace = << >>
       /\ pc = "returned" => result = "FilesWouldBeOverwritten"

\* A NoOverwrite run has returned FilesWouldBeOverwritten, and a source file
\* that collided with nothing has not been written either.
C1_Witness ==
    /\ pc = "returned"
    /\ write_mode = "NoOverwrite"
    /\ result = "FilesWouldBeOverwritten"
    /\ \E r \in CopiedLeaves : CollidesAtStart(r)
    /\ \E r \in CopiedLeaves : ~CollidesAtStart(r) /\ NodeAt(fs, dest_dir \o r).kind = "none"

\* C4: no destination entry is created, or changed, at the path of an
\* excluded source entry; from an empty destination no such path exists.
C4_ExcludedNeverCreated ==
    \A r \in SourceRels :
        ExcludedEntry(r) =>
            /\ NodeAt(fs, dest_dir \o r) = NodeAt(fs0, dest_dir \o r)
            /\ DestRels(fs0) = {} => r \notin DestRels(fs)

\* A copy into an empty destination has succeeded with entries excluded by a
\* component, by a full relative path and by .git, and one entry copied.
C4_Witness ==
    /\ pc = "returned"
    /\ result = "Ok"
    /\ DestRels(fs0) = {}
    /\ << <<"deep", "nested">> >> = SubSeq(exclude, 3, Len(exclude))
    /\ \E r \in SourceRels : \E i \in 1..Len(r) : GlobSetIsMatch(exclude, << r[i] >>)
    /\ \E r \in SourceRels : GlobSetIsMatch(exclude, r)
    /\ <<".git">> \in SourceRels
    /\ <<"src", "main.txt">> \in DestRels(fs)
    /\ <<"deep", "nested">> \notin DestRels(fs)

\* C5: after a successful copy into an empty destination, the destination's
\* relative paths are those of the non-excluded source entries, directories
\* included, with the same kind, and each regular file has the content of
\* its source.
C5_CopyIntoEmptyMirrorsSource ==
    (pc = "returned" /\ result = "Ok" /\ DestRels(fs0) = {})
    => /\ DestRels(fs) = { r \in SourceRels : ~ExcludedOrPruned(r) }
       /\ \A r \in DestRels(fs) :
            /\ NodeAt(fs, dest_dir \o r).kind = SourceNode(r).kind
            /\ NodeAt(fs, dest_dir \o r).content = SourceNode(r).content

\* The specification's scenario: the tree {src/main.txt, .git/config,
\* node_modules/x, dist/bundle.js, deep/nested/f.txt} copied with the
\* patterns node_modules, .DS_Store, dist leaves exactly the files
\* src/main.txt and deep/nested/f.txt.
C5_Witness ==
    /\ pc = "returned"
    /\ result = "Ok"
    /\ DestRels(fs0) = {}
    /\ SourceRels = DOMAIN ScenarioTree \ {<< >>}
    /\ exclude = << <<"node_modules">>, <<".DS_Store">>, <<"dist">> >>
    /\ { r \in DestRels(fs) : NodeAt(fs, dest_dir \o r).kind = "file" }
         = { <<"src", "main.txt">>, <<"deep", "nested", "f.txt">> }
    /\ NodeAt(fs, dest_dir \o <<"src", "main.txt">>) = FileNode("M")
    /\ NodeAt(fs, dest_dir \o <<"deep", "nested", "f.txt">>) = FileNode("F")

\* What the copy of the source entry at r produces in an empty destination.
ExpectedNode(r) ==
    IF SourceNode(r).kind = "symlink"
    THEN LinkNode(new_target(fs0, source_dir \o r, dest_dir \o r, source_dir, dest_dir))
    ELSE SourceNode(r)

\* C6: under SkipOverwrite a non-excluded source file or symlink whose
\* destination path held an entry (a file, a symlink whether or not its
\* target exists, a directory) is skipped: nothing is written for it.
C6_SkipOverwriteSkipsEveryCollision ==
    write_mode = "SkipOverwrite"
    => \A i \in DOMAIN trace :
          (trace[i].kind \in {"file", "symlink"} /\ CollidesAtStart(trace[i].rel))
          => trace[i].handled = "skip"

\* C7: after a successful Overwrite copy, every destination path that held a
\* file or a symlink and collides with a non-excluded source file or symlink
\* holds what the copy produces in an empty destination.
C7_OverwriteReplacesCollisions ==
    (write_mode = "Overwrite" /\ pc = "returned" /\ result = "Ok")
    => \A r \in CopiedLeaves :
          FileType(fs0, dest_dir \o r) \in {"file", "symlink"}
          => NodeAt(fs, dest_dir \o r) = ExpectedNode(r)

C9_ModeOnlyEscalatesFromAsk ==
    [][ /\ write_mode' = write_mode
        /\ (pc = "copy_template" /\ pc' = "walk") => copy_mode' = write_mode
        /\ (pc = "walk" /\ copy_mode' # copy_mode)
            => copy_mode = "Ask" /\ copy_mode' \in {"Overwrite", "SkipOverwrite"} ]_vars

\* A later invocation (its destination holds what the first run wrote) has
\* started at Ask again and has escalated in its turn.
C9_Witness ==
    /\ pc = "walk"
    /\ write_mode = "Ask"
    /\ copy_mode = "SkipOverwrite"
    /\ NodeAt(fs0, dest_dir \o <<"b.txt">>) = FileNode("B")
    /\ trace # << >>
    /\ Last(trace).choice = "SkipAll"

\* C10: an "Abort" answer ends the run at once with an error: it is the
\* last thing the run did, the aborting iteration changed nothing, and what
\* was written before it is still there.
C10_AbortStopsWithoutRollback ==
    \A i \in DOMAIN trace :
        trace[i].choice = "Abort" =>
            /\ i = Len(trace)
            /\ trace[i].handled = "abort"
            /\ pc = "returned"
            /\ result = "Aborted"
            /\ fs = fs_prev
            /\ \A k \in 1..(i - 1) :
                  (trace[k].handled \in {"write", "overwrite"} /\ trace[k].kind = "file")
                  => /\ Exists(fs, dest_dir \o trace[k].rel)
                     /\ NodeAt(fs, Stat(fs, dest_dir \o trace[k].rel).path).content
                          = SourceNode(trace[k].rel).content

\* A run was aborted at its second conflict after it had written a file.
C10_Witness ==
    /\ result = "Aborted"
    /\ Len(trace) >= 3
    /\ Last(trace).choice = "Abort"
    /\ \E k \in 1..(Len(trace) - 1) : trace[k].handled = "write"
    /\ \E k \in 1..(Len(trace) - 1) : trace[k].prompted /\ trace[k].handled = "overwrite"
    /\ fs # fs0

\* The source symlinks copy_template was invoked with.
SourceLinks == { r \in SourceRels : SourceNode(r).kind = "symlink" }

\* The events of the main loop for the entry at r.
EventsAt(r) == { i \in DOMAIN trace : trace[i].rel = r }

\* The paths whose node the last step of copy_template changed.
ChangedByLastStep == { p \in DOMAIN fs : fs[p] # fs_prev[p] }

\* r is a source symlink that points to an existing directory.
LinkToDirectory(r) == r \in SourceLinks /\ IsDir(fs0, source_dir \o r)

\* C19: the walk yields a source symlink once, as a symlink, and yields no
\* entry through it; the step that handles it changes the destination path
\* of the link and nothing else, and what it leaves there is a symlink, also
\* when the link points to a directory, and that directory is left as it was.
C19_SymlinksAreNotTraversed ==
    /\ \A i \in DOMAIN trace :
          /\ \A r \in SourceLinks : ~(IsPrefix(r, trace[i].rel) /\ trace[i].rel # r)
          /\ trace[i].rel \in SourceRels
          /\ trace[i].rel \in SourceLinks <=> trace[i].kind = "symlink"
    /\ \A r \in SourceLinks :
          /\ Cardinality(EventsAt(r)) <= 1
          /\ (result = "Ok" /\ ~ExcludedOrPruned(r)) => EventsAt(r) # {}
          /\ \A i \in EventsAt(r) :
                /\ trace[i].handled \in {"write", "overwrite"}
                      => NodeAt(fs, dest_dir \o r).kind = "symlink"
                /\ (i = Len(trace) /\ pc \in {"walk", "returned"} /\ result \in {"none", "Ok"})
                      => ChangedByLastStep \subseteq { dest_dir \o r }
    /\ \A r \in SourceLinks : \A p \in DOMAIN fs :
          (LinkToDirectory(r) /\ IsPrefix(Stat(fs0, source_dir \o r).path, p)) => fs[p] = fs0[p]

\* A copy into an empty destination has succeeded with a source symlink to
\* a directory that holds files: the destination has the symlink, and as
\* many entries as the source has outside the excluded ones.
C19_Witness ==
    /\ pc = "returned"
    /\ result = "Ok"
    /\ DestRels(fs0) = {}
    /\ LinkToDirectory(<<"link">>)
    /\ Children(fs0, Stat(fs0, source_dir \o <<"link">>).path) # {}
    /\ NodeAt(fs, dest_dir \o <<"link">>).kind = "symlink"
    /\ DestRels(fs) = { r \in SourceRels : ~ExcludedOrPruned(r) }

\* The raw target of the source symlink at r is relative and resolves to an
\* existing path inside the source root.
RelativeInTree(r) ==
    /\ r \in SourceLinks
    /\ ~IsAbsolute(SourceNode(r).target)
    /\ Stat(fs0, Parent(source_dir \o r) \o SourceNode(r).target).st = "found"
    /\ IsPrefix(Stat(fs0, source_dir).path,
                Stat(fs0, Parent(source_dir \o r) \o SourceNode(r).target).path)

\* C20: a source symlink with a relative target that resolves inside the
\* source root is written to the destination with the very same target.
C20_RelativeInTreeTargetKept ==
    \A i \in DOMAIN trace :
        ( /\ trace[i].kind = "symlink"
          /\ trace[i].handled \in {"write", "overwrite"}
          /\ RelativeInTree(trace[i].rel) )
        => NodeAt(fs, dest_dir \o trace[i].rel) = LinkNode(SourceNode(trace[i].rel).target)

\* A symlink whose relative target leaves the template and comes back into
\* it has been copied with that target, which in the destination points to
\* the template's file, not to the copy.
C20_Witness ==
    /\ pc = "returned"
    /\ result = "Ok"
    /\ RelativeInTree(<<"link">>)
    /\ SourceNode(<<"link">>).target = <<"..", "t", "dist", "bundle.js">>
    /\ NodeAt(fs, dest_dir \o <<"link">>) = LinkNode(<<"..", "t", "dist", "bundle.js">>)
    /\ Stat(fs, dest_dir \o <<"link">>).path = source_dir \o <<"dist", "bundle.js">>

\* A path with its `.` and `..` components taken away, as the kernel walks
\* it through directories that are no symlinks.
RECURSIVE Lexical(_, _)
Lexical(cur, rest) ==
    IF rest = << >> THEN cur
    ELSE IF Head(rest) = ".." THEN Lexical(Parent(cur), Tail(rest))
    ELSE IF Head(rest) = "." THEN Lexical(cur, Tail(rest))
    ELSE Lexical(Append(cur, Head(rest)), Tail(rest))

\* Where the target of the source symlink at r resolves to (stat of the
\* link), and whether it does.
LinkResolves(r) == r \in SourceLinks /\ Exists(fs0, source_dir \o r)
LinkCanonical(r) == Stat(fs0, source_dir \o r).path
LinkInTree(r) == LinkResolves(r) /\ IsPrefix(Stat(fs0, source_dir).path, LinkCanonical(r))

\* The relative location, under the source root, of what the link at r
\* points to.
LinkLocation(r) == StripPrefix(Stat(fs0, source_dir).path, LinkCanonical(r))

\* The events of source symlinks the main loop wrote to the destination.
WrittenLinks ==
    { i \in DOMAIN trace : trace[i].kind = "symlink" /\ trace[i].handled \in {"write", "overwrite"} }

\* C21: a source symlink with an absolute target that resolves inside the
\* source root at the relative location r is written as a relative link
\* which, from the directory of the destination link, designates dest_dir/r;
\* once the copy has succeeded into an empty destination and r is not
\* excluded, the link resolves to the copy at dest_dir/r.
C21_AbsoluteInTreeBecomesRelative ==
    \A i \in WrittenLinks :
        LET r == trace[i].rel
            written == NodeAt(fs, dest_dir \o r)
        IN  (IsAbsolute(SourceNode(r).target) /\ LinkInTree(r))
            => /\ written.kind = "symlink"
               /\ ~IsAbsolute(written.target)
               /\ Lexical(Parent(dest_dir \o r), written.target) = dest_dir \o LinkLocation(r)
               /\ ( /\ pc = "returned" /\ result = "Ok" /\ DestRels(fs0) = {}
                    /\ ~ExcludedOrPruned(LinkLocation(r)) )
                  => /\ Exists(fs, dest_dir \o r)
                     /\ Stat(fs, dest_dir \o r).path = dest_dir \o LinkLocation(r)

\* A link three levels down with the absolute target /t/dist/bundle.js has
\* been copied: the destination link is ../../dist/bundle.js and resolves to
\* the copy of the file; source and destination roots share only `/`.
C21_Witness ==
    /\ pc = "returned"
    /\ result = "Ok"
    /\ CommonLen(source_dir, dest_dir) = 0
    /\ SourceNode(<<"deep", "nested", "f.txt">>) = LinkNode(<<"/", "t", "dist", "bundle.js">>)
    /\ NodeAt(fs, dest_dir \o <<"deep", "nested", "f.txt">>)
         = LinkNode(<<"..", "..", "dist", "bundle.js">>)
    /\ Stat(fs, dest_dir \o <<"deep", "nested", "f.txt">>).path = dest_dir \o <<"dist", "bundle.js">>
    /\ NodeAt(fs, dest_dir \o <<"dist", "bundle.js">>) = FileNode("J")

\* C22: a source symlink whose target resolves to an existing path outside
\* the source root is written with the canonical absolute path of that
\* target, for a relative and for an absolute raw target, and the
\* destination link resolves to the same path.
C22_OutsideTargetBecomesCanonical ==
    \A i \in WrittenLinks :
        LET r == trace[i].rel
        IN  (LinkResolves(r) /\ ~LinkInTree(r))
            => /\ NodeAt(fs, dest_dir \o r) = LinkNode(<<"/">> \o LinkCanonical(r))
               /\ Exists(fs, dest_dir \o r)
               /\ Stat(fs, dest_dir \o r).path = LinkCanonical(r)
               /\ NodeAt(fs, LinkCanonical(r)) = NodeAt(fs0, LinkCanonical(r))

\* The link with the relative target ../e/x has been copied as /e/x.
C22_Witness ==
    /\ pc = "returned"
    /\ result = "Ok"
    /\ SourceNode(<<"link">>) = LinkNode(<<"..", "e", "x">>)
    /\ NodeAt(fs, dest_dir \o <<"link">>) = LinkNode(<<"/", "e", "x">>)
    /\ NodeAt(fs, Stat(fs, dest_dir \o <<"link">>).path) = FileNode("X")

\* C23: a source symlink whose target does not resolve is no error of its
\* own: where the destination path was free the link is written, a written
\* link has the raw target as read, and the loop goes on to the entries
\* that remain.
C23_BrokenLinkIsCopiedAsIs ==
    \A i \in DOMAIN trace :
        LET r == trace[i].rel
        IN  (trace[i].kind = "symlink" /\ ~LinkResolves(r))
            => /\ ~trace[i].conflict => trace[i].handled = "write"
               /\ trace[i].handled = "fail" => trace[i].conflict
               /\ trace[i].handled \in {"write", "overwrite"}
                     => /\ NodeAt(fs, dest_dir \o r) = LinkNode(SourceNode(r).target)
                        /\ (i = Len(trace) /\ result = "none") => pc = "walk"
                        /\ (pc = "returned" /\ result = "Ok")
                              => \A q \in CopiedLeaves : EventsAt(q) # {}

\* The broken link a.txt -> b.txt was written first, and the file
\* src/main.txt after it; the copy returned Ok.
C23_Witness ==
    /\ pc = "returned"
    /\ result = "Ok"
    /\ SourceNode(<<"a.txt">>) = LinkNode(<<"b.txt">>)
    /\ <<"b.txt">> \notin SourceRels
    /\ NodeAt(fs, dest_dir \o <<"a.txt">>) = LinkNode(<<"b.txt">>)
    /\ ~Exists(fs, dest_dir \o <<"a.txt">>)
    /\ \E i, j \in DOMAIN trace :
          /\ i < j
          /\ trace[i].rel = <<"a.txt">> /\ trace[i].handled = "write"
          /\ trace[j].rel = <<"src", "main.txt">> /\ trace[j].handled = "write"

\* C28: when an exclude pattern does not compile, copy_template returns the
\* error with the file system as it was invoked in: the destination
\* directory is not created and no entry is written, in every write mode.
C28_InvalidPatternFailsBeforeMutation ==
    (~build_globset_ok(exclude) /\ IsDir(fs0, source_dir))
    => /\ fs = fs0
       /\ trace = << >>
       /\ pc = "returned" => result = "InvalidPattern"

\* The part of C28 about entries: the run never enters its main loop.
C28_NothingIsCopied ==
    (~build_globset_ok(exclude) /\ IsDir(fs0, source_dir))
    => /\ pc # "walk"
       /\ trace = << >>
       /\ DestRels(fs) = DestRels(fs0)
       /\ pc = "returned" => result = "InvalidPattern"

\* The entries under the destination are the ones copy_template was invoked
\* with.
DestinationUntouched == \A r \in RelPaths : NodeAt(fs, dest_dir \o r) = NodeAt(fs0, dest_dir \o r)

\* The entries the destination held at invocation are as they were.
ExistingEntriesKept ==
    /\ \A r \in DestRels(fs0) : NodeAt(fs, dest_dir \o r) = NodeAt(fs0, dest_dir \o r)
    /\ \A p \in DOMAIN fs : IsPrefix(ExternalDir, p) => fs[p] = fs0[p]

\* C30: a NoOverwrite run that returns an error because of an entry the
\* destination already held has written nothing, and a run that writes
\* leaves every entry the destination held as it was.
C30_NoOverwriteNeverPartial ==
    write_mode = "NoOverwrite"
    => /\ (pc = "returned" /\ result \notin {"Ok", "InvalidPattern", "SourceNotDir"})
             => DestinationUntouched
       /\ ExistingEntriesKept

\* The second half of C30 on its own.
C30_ExistingEntriesKept == write_mode = "NoOverwrite" => ExistingEntriesKept

\* The step is an iteration of the main loop: it has handled one entry.
Iteration == pc = "walk" /\ Len(trace') = Len(trace) + 1

\* The entry the iteration handles is a file or a symlink whose destination
\* path holds an entry, of whatever kind, when the iteration begins.
Collides(ev) ==
    ev.kind \in {"file", "symlink"} /\ SymlinkMetadataOk(fs, dest_dir \o ev.rel)

\* The entry is one the loop itself finds to exist: symlink_metadata() for
\* a source symlink, exists() for a source file.
FoundToExist(ev) ==
    \/ ev.kind = "symlink" /\ SymlinkMetadataOk(fs, dest_dir \o ev.rel)
    \/ ev.kind = "file" /\ Exists(fs, dest_dir \o ev.rel)

\* The answers "Overwrite" and "Skip" hold for the asked path only: the
\* session mode is still Ask, and the path was overwritten, or kept.
AnswerIsForThisPathOnly(ev) ==
    /\ (ev.prompted /\ ev.choice = "Overwrite")
          => copy_mode' = "Ask" /\ ev.handled \in {"overwrite", "fail"}
    /\ (ev.prompted /\ ev.choice = "Skip")
          => /\ copy_mode' = "Ask"
             /\ ev.handled = "skip"
             /\ fs' = fs

\* C32: an entry is handled once; the user is asked, once, exactly when the
\* session mode is Ask and the destination path of the file or symlink
\* holds an entry; after "Overwrite" or "Skip" the mode is still Ask, so
\* the next colliding path is asked about again.
C32_PromptOncePerConflict ==
    [][ Iteration =>
          /\ \A k \in DOMAIN trace : trace[k].rel # Last(trace').rel
          /\ Last(trace').prompted <=> (copy_mode = "Ask" /\ Collides(Last(trace')))
          /\ AnswerIsForThisPathOnly(Last(trace')) ]_vars

\* C32, for the paths the loop finds to exist: the user is asked exactly
\* when the mode is Ask and the loop's own test of the destination path
\* succeeds.
C32_PromptPerFoundConflict ==
    [][ Iteration =>
          /\ \A k \in DOMAIN trace : trace[k].rel # Last(trace').rel
          /\ Last(trace').prompted <=> (copy_mode = "Ask" /\ FoundToExist(Last(trace')))
          /\ Last(trace').prompted => Last(trace').choice # "none"
          /\ ~Last(trace').prompted => Last(trace').choice = "none"
          /\ AnswerIsForThisPathOnly(Last(trace')) ]_vars

\* Two conflicts of one Ask run were both asked about: the first answered
\* "Skip", the second "Overwrite", and the mode is still Ask.
C32_AskedAgain ==
    /\ write_mode = "Ask"
    /\ copy_mode = "Ask"
    /\ \E i, j \in DOMAIN trace :
          /\ i < j
          /\ trace[i].prompted /\ trace[i].choice = "Skip" /\ trace[i].handled = "skip"
          /\ trace[j].prompted /\ trace[j].choice = "Overwrite" /\ trace[j].handled = "overwrite"

\* The copy has succeeded into a destination that held nothing.
CopiedIntoEmpty == pc = "returned" /\ result = "Ok" /\ DestRels(fs0) = {}

\* C33: a source symlink with a relative target that resolves inside the
\* source root at the relative location r, written as it is, resolves from
\* its place in the destination to dest_dir/r and to nothing in the source
\* tree (the copy having succeeded into an empty destination, r copied).
C33_RelativeLinkResolvesInDestination ==
    \A i \in WrittenLinks :
        ( /\ RelativeInTree(trace[i].rel)
          /\ CopiedIntoEmpty
          /\ ~ExcludedOrPruned(LinkLocation(trace[i].rel)) )
        => /\ Exists(fs, dest_dir \o trace[i].rel)
           /\ Stat(fs, dest_dir \o trace[i].rel).path = dest_dir \o LinkLocation(trace[i].rel)
           /\ ~IsPrefix(source_dir, Stat(fs, dest_dir \o trace[i].rel).path)

\* The relative target, walked from the directory at depth `depth` below
\* the root, never steps above the root.
RECURSIVE StaysBelow(_, _)
StaysBelow(depth, target) ==
    IF target = << >> THEN TRUE
    ELSE IF Head(target) = ".." THEN depth > 0 /\ StaysBelow(depth - 1, Tail(target))
    ELSE IF Head(target) = "." THEN StaysBelow(depth, Tail(target))
    ELSE StaysBelow(depth + 1, Tail(target))

\* C33, for the relative targets that never step above the source root:
\* the link written as it is resolves to dest_dir/r.
C33_LinkBelowRootResolvesInDestination ==
    \A i \in WrittenLinks :
        ( /\ RelativeInTree(trace[i].rel)
          /\ StaysBelow(Len(trace[i].rel) - 1, SourceNode(trace[i].rel).target)
          /\ CopiedIntoEmpty
          /\ ~ExcludedOrPruned(LinkLocation(trace[i].rel)) )
        => /\ Exists(fs, dest_dir \o trace[i].rel)
           /\ Stat(fs, dest_dir \o trace[i].rel).path = dest_dir \o LinkLocation(trace[i].rel)
           /\ ~IsPrefix(source_dir, Stat(fs, dest_dir \o trace[i].rel).path)

\* A relative link that stays below the root has been copied and resolves
\* to the copy of its target.
C33_BelowRootWitness ==
    /\ CopiedIntoEmpty
    /\ \E i \in WrittenLinks :
          /\ RelativeInTree(trace[i].rel)
          /\ StaysBelow(Len(trace[i].rel) - 1, SourceNode(trace[i].rel).target)
          /\ ~ExcludedOrPruned(LinkLocation(trace[i].rel))
          /\ Stat(fs, dest_dir \o trace[i].rel).path = dest_dir \o LinkLocation(trace[i].rel)

\* The destination paths the main loop has treated as conflicts: those it
\* skipped, prompted for or overwrote.
WalkConflicts == { dest_dir \o trace[i].rel : i \in { k \in DOMAIN trace : trace[k].conflict } }

\* What the pre-flight returns for the trees copy_template was invoked with.
PreflightCollisions == collect_collisions(fs0, source_dir, dest_dir, exclude)

\* C35: for the same source tree, destination tree and exclude list, the
\* paths collect_collisions returns are the paths the main loop treats as
\* conflicts when it walks the whole tree.
C35_PreflightEqualsWalkConflicts ==
    (pc = "returned" /\ result = "Ok") => WalkConflicts = PreflightCollisions

\* C35, one direction: every path the main loop treats as a conflict is
\* one the pre-flight returns, at every moment of every run.
C35_WalkConflictsArePreflighted == WalkConflicts \subseteq PreflightCollisions

\* C35 for source symlinks, both directions: both walks test their
\* destination with symlink_metadata().
C35_SymlinkConflictsAgree ==
    (pc = "returned" /\ result = "Ok") =>
        \A r \in SourceLinks :
            (dest_dir \o r) \in WalkConflicts <=> (dest_dir \o r) \in PreflightCollisions

\* A walk has met a conflict at a symlink's destination, which the
\* pre-flight returns too.
C35_SymlinkWitness ==
    /\ pc = "returned"
    /\ result = "Ok"
    /\ \E r \in SourceLinks : (dest_dir \o r) \in WalkConflicts \cap PreflightCollisions

\* The paths copy_template may change: dest_dir itself and dest_dir/r for r
\* the relative path of a source entry that is not excluded (the ancestors
\* of such an entry are such entries).
CopiedPaths ==
    { dest_dir } \cup { dest_dir \o r : r \in { q \in SourceRels : ~ExcludedOrPruned(q) } }

\* The paths whose node is not the one of the invocation.
ChangedSinceInvocation == { p \in DOMAIN fs : fs[p] # fs0[p] }

\* C37: in every write mode, at every moment of a run, the only paths
\* created, modified or removed are dest_dir and the paths dest_dir/r of
\* the source entries that are not excluded: nothing outside dest_dir, and
\* nothing through a symlink the destination held.
C37_OnlyCopiedPathsChange == ChangedSinceInvocation \subseteq CopiedPaths

\* The destination held no symlink when copy_template was invoked.
NoDestinationLinks == \A r \in DestRels(fs0) : NodeAt(fs0, dest_dir \o r).kind # "symlink"

\* C37, for a destination that holds no symlink: only dest_dir and the
\* paths of the copied source entries change.
C37_FrameWithoutDestinationLinks ==
    NoDestinationLinks => ChangedSinceInvocation \subseteq CopiedPaths

\* A run over a destination without symlinks has overwritten a file and
\* written another.
C37_FrameWitness ==
    /\ NoDestinationLinks
    /\ pc = "returned"
    /\ result = "Ok"
    /\ \E i \in DOMAIN trace : trace[i].handled = "overwrite"
    /\ \E i \in DOMAIN trace : trace[i].handled = "write"
    /\ Cardinality(ChangedSinceInvocation) >= 2

\* The relative path r has a component named .git.
HasGitComponent(r) == \E i \in 1..Len(r) : r[i] = ".git"

\* A directory strictly above r is skipped by should_skip_entry.
UnderSkippedDirectory(r) ==
    \E k \in 1..(Len(r) - 1) :
        should_skip_entry(source_dir \o SubSeq(r, 1, k), source_dir, exclude)

\* The relative paths of the entries the main loop has handled.
VisitedRels == { trace[i].rel : i \in DOMAIN trace }

\* C39: should_skip_entry skips every source entry whose relative path has
\* a component named .git, at any depth and whatever the exclude list; and
\* an entry with such a component, or below a skipped directory, is never
\* visited by the walk and nothing is created or changed at its path in the
\* destination.
C39_GitAtAnyDepthAndPruning ==
    \A r \in SourceRels :
        /\ HasGitComponent(r) => should_skip_entry(source_dir \o r, source_dir, exclude)
        /\ (HasGitComponent(r) \/ UnderSkippedDirectory(r)) =>
              /\ r \notin VisitedRels
              /\ NodeAt(fs, dest_dir \o r) = NodeAt(fs0, dest_dir \o r)

\* A copy has succeeded from a tree with a nested .git directory and an
\* excluded directory: deep/nested/f.txt was copied, nothing of deep/.git
\* and nothing below node_modules was.
C39_Witness ==
    /\ pc = "returned"
    /\ result = "Ok"
    /\ {<<"deep", ".git">>, <<"deep", ".git", "config">>, <<"node_modules", "x">>} \subseteq SourceRels
    /\ ~GlobSetIsMatch(exclude, <<"x">>)
    /\ <<"deep", "nested", "f.txt">> \in VisitedRels
    /\ <<"deep", "nested", "f.txt">> \in DestRels(fs)
    /\ DestRels(fs) \cap {<<"deep", ".git">>, <<"deep", ".git", "config">>,
                          <<"node_modules">>, <<"node_modules", "x">>} = {}

----------------------------------------------------------------------------
(* Properties of cmd_init, checked under Spec *)

\* The entries the target directory holds in f.
TargetEntries(f) == Children(f, Stat(f, env.target_path).path)

\* cmd_init was invoked for a registered template whose directory exists,
\* on a target that holds at least one entry.
InvokedOnNonEmptyTarget ==
    /\ env.registered
    /\ IsDir(fs_init, TemplateDir)
    /\ IsDir(fs_init, env.target_path)
    /\ TargetEntries(fs_init) # {}

C3_FailedPreconditionLeavesFsUntouched ==
    ( /\ env.pre_init = "none"
      /\ init_result \in {"DangerousPath", "TargetNotEmpty",
                          "FilesWouldBeOverwritten", "InvalidPattern"} )
    => fs = fs_init

\* The operations cmd_init has performed, as a set.
StepsRun == { steps[i] : i \in DOMAIN steps }

\* The positions of the operation op in steps.
StepIndexes(op) == { i \in DOMAIN steps : steps[i] = op }

GitSteps == {"git config", "git init", "git add", "git commit", "git clone", "git remote set-url"}

\* cmd_init has come to look at its target: the template is registered, it
\* was resolved and its directory exists.
TemplateResolved ==
    /\ env.registered
    /\ ~(env.location_is_url /\ env.git_fails = "clone_repo")
    /\ IsDir(fs_init, TemplateDir)

\* The target, canonicalized, is `/` or the home directory.
TargetIsDangerous ==
    /\ Stat(fs_init, env.target_path).st = "found"
    /\ Stat(fs_init, env.target_path).path \in {Root, HomeDir}

C14_PreInitFailureAborts ==
    (env.pre_init = "fail" /\ "pre_init" \in StepsRun)
    => /\ pc = "done"
       /\ init_result = "HookFailed"
       /\ Last(steps) = "pre_init"
       /\ StepsRun \cap ({"strict_check", "copy_template", "post_init", "created"}
                          \cup GitSteps) = {}
       /\ trace = << >>

\* A failing pre-init hook has ended a Strict, Fresh cmd_init that has a
\* post-init hook.
C14_Witness ==
    /\ pc = "done"
    /\ init_result = "HookFailed"
    /\ env.write_mode = "Strict"
    /\ env.git = "Fresh"
    /\ env.post_init = "fail"
    /\ "pre_init" \in StepsRun

\* Every file the copy has written is at its destination with its source's
\* content.
CopiedFilesRemain ==
    \A k \in DOMAIN trace :
        (trace[k].handled \in {"write", "overwrite"} /\ trace[k].kind = "file")
        => /\ Exists(fs, dest_dir \o trace[k].rel)
           /\ NodeAt(fs, Stat(fs, dest_dir \o trace[k].rel).path).content
                = NodeAt(fs_init, source_dir \o trace[k].rel).content

\* The git-mode step of cmd_init has succeeded: the copy returned Ok (Fresh,
\* NoGit), the commit ran and did not fail (Fresh), the clone made the
\* repository and, for a URL, the remote was rewritten (Preserve).
GitModeStepSucceeded ==
    IF env.git = "NoGit" THEN "copy_template" \in StepsRun /\ result = "Ok"
    ELSE IF env.git = "Fresh"
    THEN /\ "copy_template" \in StepsRun /\ result = "Ok"
         /\ "git commit" \in StepsRun /\ env.git_fails # "commit" /\ env.identity
    ELSE /\ "git clone" \in StepsRun
         /\ NodeAt(fs, target_canonical \o <<".git", "config">>).content
              \in {"origin=template_path", "origin=location"}
         /\ env.location_is_url
              => ("git remote set-url" \in StepsRun /\ env.git_fails # "set-url")

\* C15: the post-init hook runs at most once and only after the git-mode
\* step has succeeded; when it has run, failing or not, cmd_init returns Ok
\* at once and what was materialized is still there.
C15_PostInitFailureIsAWarning ==
    /\ Cardinality(StepIndexes("post_init")) <= 1
    /\ "post_init" \in StepsRun
         => /\ GitModeStepSucceeded
            /\ pc = "done"
            /\ init_result = "Ok"
            /\ CopiedFilesRemain
            /\ env.git = "Preserve"
                 => NodeAt(fs, target_canonical \o <<"a.txt">>) = FileNode("A")

\* A failing post-init hook has run after a Fresh copy and commit, and
\* cmd_init has returned Ok with the copied file in the target.
C15_Witness ==
    /\ pc = "done"
    /\ init_result = "Ok"
    /\ env.post_init = "fail"
    /\ env.git = "Fresh"
    /\ "post_init" \in StepsRun
    /\ "git commit" \in StepsRun
    /\ NodeAt(fs, target_canonical \o <<"a.txt">>) = FileNode("A")

\* C16: in Fresh mode without a committer identity, once the copy has
\* succeeded cmd_init fails with the identity-missing error: no git init,
\* add or commit has run, no repository was made in the target, no post-init
\* hook has run, and the copied files are still there.
C16_NoIdentityFailsBeforeGit ==
    (env.git = "Fresh" /\ ~env.identity /\ result = "Ok" /\ pc \notin {"returned", "commit"})
    => /\ pc = "done"
       /\ init_result = "GitIdentityMissing"
       /\ StepsRun \cap {"git init", "git add", "git commit", "post_init", "created"} = {}
       /\ NodeAt(fs, target_canonical \o <<".git">>) = NodeAt(fs0, target_canonical \o <<".git">>)
       /\ CopiedFilesRemain
       /\ trace # << >>

\* A Fresh cmd_init into a target that did not exist has failed for want of
\* an identity: the copied file is there, a repository is not.
C16_Witness ==
    /\ pc = "done"
    /\ init_result = "GitIdentityMissing"
    /\ NodeAt(fs_init, WorkDir).kind = "none"
    /\ NodeAt(fs, WorkDir \o <<"a.txt">>) = FileNode("A")
    /\ NodeAt(fs, WorkDir \o <<"src", "main.txt">>) = FileNode("M")
    /\ NodeAt(fs, WorkDir \o <<".git">>).kind = "none"

\* cmd_init is past the match on resolved.git, or inside one of its arms.
PastDispatch ==
    \/ pc \in {"copy_template", "walk", "returned", "commit", "post_init"}
    \/ init_result = "Ok"

\* C17: copy_template is called exactly in the Fresh and NoGit modes; in
\* Preserve the target is made by clone_local alone (no copy, no pattern is
\* compiled, no conflict is handled); in NoGit no git command runs and no
\* repository appears in the target; git config, init, add and commit run
\* only in Fresh and only after copy_template returned Ok.
C17_GitModeDispatch ==
    /\ "copy_template" \in StepsRun => env.git \in {"Fresh", "NoGit"}
    /\ "git clone" \in StepsRun => env.git = "Preserve"
    /\ PastDispatch =>
          IF env.git = "Preserve" THEN "git clone" \in StepsRun
          ELSE "copy_template" \in StepsRun
    /\ env.git = "Preserve" =>
          /\ trace = << >>
          /\ result = "none"
          /\ pc \notin {"copy_template", "walk", "returned", "commit"}
          /\ init_result \notin {"InvalidPattern", "FilesWouldBeOverwritten", "Aborted"}
    /\ env.git = "NoGit" =>
          /\ StepsRun \cap GitSteps = {}
          /\ NodeAt(fs, env.target_path \o <<".git">>).kind # "none"
                => NodeAt(fs_init, env.target_path \o <<".git">>).kind # "none"
    /\ StepsRun \cap {"git config", "git init", "git add", "git commit"} # {} =>
          /\ env.git = "Fresh"
          /\ result = "Ok"
          /\ \A i \in DOMAIN steps :
                steps[i] \in {"git config", "git init", "git add", "git commit"}
                => \E j \in 1..(i - 1) : steps[j] = "copy_template"

\* A Preserve cmd_init has succeeded although an exclude pattern does not
\* compile and the write mode is Ask: the target holds the template's file
\* and its repository.
C17_Witness ==
    /\ pc = "done"
    /\ init_result = "Ok"
    /\ env.git = "Preserve"
    /\ env.write_mode = "Ask"
    /\ ~build_globset_ok(env.exclude)
    /\ NodeAt(fs, WorkDir \o <<"a.txt">>) = FileNode("A")
    /\ NodeAt(fs, WorkDir \o <<".git">>).kind = "dir"
    /\ "git clone" \in StepsRun

\* The remote origin of the repository in the target.
TargetOrigin == NodeAt(fs, target_canonical \o <<".git", "config">>).content

\* C18: `git remote set-url` runs only in Preserve mode for a template whose
\* location is a URL, and only right after a successful clone; a successful
\* Preserve cmd_init has run it exactly when the location is a URL, and for
\* a local path the origin is the one the clone set.
C18_RemoteRewrittenOnlyForUrl ==
    /\ \A i \in StepIndexes("git remote set-url") :
          /\ env.git = "Preserve"
          /\ env.location_is_url
          /\ i > 1 /\ steps[i - 1] = "git clone"
          /\ env.git_fails # "clone"
          /\ TargetOrigin \in {"origin=template_path", "origin=location"}
    /\ (env.git = "Preserve" /\ PastDispatch) =>
          IF env.location_is_url
          THEN "git remote set-url" \in StepsRun /\ TargetOrigin = "origin=location"
          ELSE "git remote set-url" \notin StepsRun /\ TargetOrigin = "origin=template_path"

\* Two successful Preserve runs are told apart by the template's location:
\* this one is a local path, no set-url has run and the origin is the
\* clone's.
C18_Witness ==
    /\ pc = "done"
    /\ init_result = "Ok"
    /\ env.git = "Preserve"
    /\ ~env.location_is_url
    /\ "git clone" \in StepsRun
    /\ "git remote set-url" \notin StepsRun
    /\ TargetOrigin = "origin=template_path"

\* copy_template, called by cmd_init, has returned an error.
CopyFailed == "copy_template" \in StepsRun /\ result \notin {"none", "Ok"}

\* A git command of the git-mode step has run and failed.
GitStepFailed ==
    \/ "git config" \in StepsRun /\ ~env.identity
    \/ "git init" \in StepsRun /\ env.git_fails = "init"
    \/ "git add" \in StepsRun /\ env.git_fails = "add"
    \/ "git commit" \in StepsRun /\ env.git_fails = "commit"
    \/ "git clone" \in StepsRun /\ TargetOrigin \notin {"origin=template_path", "origin=location"}
    \/ "git remote set-url" \in StepsRun /\ env.git_fails = "set-url"

\* Every entry the copy has written is still at its destination.
WrittenEntriesRemain ==
    \A k \in DOMAIN trace :
        trace[k].handled \in {"write", "overwrite"}
        => SymlinkMetadataOk(fs, dest_dir \o trace[k].rel)

\* C31: when copy_template or a git command of the git-mode step has failed,
\* cmd_init returns that failure as an error and undoes nothing: what the
\* copy wrote is still in the target, a repository `git init` made is still
\* there, the post-init hook has not run and the message has not been
\* printed.
C31_FailureIsNotRolledBack ==
    (CopyFailed \/ GitStepFailed) =>
        /\ pc \in {"returned", "done"}
        /\ pc = "done" => init_result \notin {"none", "Ok"}
        /\ (pc = "done" /\ CopyFailed) => init_result = result
        /\ "post_init" \notin StepsRun
        /\ "created" \notin StepsRun
        /\ WrittenEntriesRemain
        /\ CopiedFilesRemain
        /\ "git add" \in StepsRun /\ "git init" \in StepsRun
             => IsDir(fs, target_canonical \o <<".git">>)

\* Files copied, the repository made, and the commit failed: cmd_init has
\* returned the git error with both files and the repository in the target.
C31_Witness ==
    /\ pc = "done"
    /\ env.git = "Fresh"
    /\ env.git_fails = "commit"
    /\ "git commit" \in StepsRun
    /\ init_result = "GitFailed"
    /\ NodeAt(fs, target_canonical \o <<"a.txt">>) = FileNode("A")
    /\ NodeAt(fs, target_canonical \o <<"src", "main.txt">>) = FileNode("M")
    /\ IsDir(fs, target_canonical \o <<".git">>)
    /\ fs_init # fs

\* An Ask run was aborted at its conflict after it had written another
\* file: cmd_init has returned the error and the written file is there.
C31_AbortedCopyWitness ==
    /\ pc = "done"
    /\ init_result = "Aborted"
    /\ \E k \in DOMAIN trace : trace[k].handled = "write" /\ trace[k].kind = "file"
    /\ NodeAt(fs, target_canonical \o <<"src", "main.txt">>) = FileNode("M")
    /\ NodeAt(fs, target_canonical \o <<"a.txt">>) = FileNode("old")

\* The place of an operation in cmd_init's order of steps; the operations
\* of the git-mode step (copy_template and the git commands) share a place.
StepRank(op) ==
    CASE op = "lookup" -> 1
      [] op = "resolve_options" -> 2
      [] op = "resolve_source" -> 3
      [] op = "source_check" -> 4
      [] op = "create_target" -> 5
      [] op = "dangerous_check" -> 6
      [] op = "pre_init" -> 7
      [] op = "strict_check" -> 8
      [] op = "post_init" -> 10
      [] op = "created" -> 11
      [] OTHER -> 9

\* The place of the step that returned cmd_init's error.
FailedAt ==
    CASE init_result = "TemplateNotFound" -> 1
      [] init_result = "GitFailed" /\ env.location_is_url /\ env.git_fails = "clone_repo" -> 3
      [] init_result = "TemplatePathMissing" -> 4
      [] init_result \in {"CreateTargetFailed", "CanonicalizeFailed"} -> 5
      [] init_result = "DangerousPath" -> 6
      [] init_result = "HookFailed" -> 7
      [] init_result = "TargetNotEmpty" -> 8
      [] OTHER -> 9

\* The target as the steps before the Strict check leave it: created when
\* it was missing, then changed by the pre-init hook when there is one.
TargetAsHookLeftIt ==
    LET made == IF Exists(fs_init, env.target_path) THEN fs_init
                ELSE CreateDirAll(fs_init, env.target_path).fs
    IN  IF env.pre_init = "none" THEN made
        ELSE run_hook(made, env.pre_init, target_canonical).fs

\* C38: cmd_init's steps run in the order lookup, option resolution, source
\* resolution, source-directory check, creation of a missing target,
\* dangerous-target check, pre-init hook, Strict check, git-mode step,
\* post-init hook, each at most once; after a failure no later step has
\* run; a failing post-init hook prevents nothing; and the Strict check
\* decides on the target as the pre-init hook left it.
C38_StepsInFixedOrder ==
    /\ \A i, j \in DOMAIN steps :
          i < j => \/ StepRank(steps[i]) < StepRank(steps[j])
                   \/ StepRank(steps[i]) = 9 /\ StepRank(steps[j]) = 9
    /\ init_result \notin {"none", "Ok"} =>
          /\ pc = "done"
          /\ StepRank(Last(steps)) = FailedAt
          /\ \A i \in DOMAIN steps : StepRank(steps[i]) <= FailedAt
    /\ init_result = "Ok" =>
          /\ {"lookup", "resolve_options", "resolve_source", "source_check",
              "dangerous_check", "created"} \subseteq StepsRun
          /\ \E i \in DOMAIN steps : StepRank(steps[i]) = 9
          /\ "create_target" \in StepsRun <=> ~Exists(fs_init, env.target_path)
          /\ "pre_init" \in StepsRun <=> env.pre_init # "none"
          /\ "strict_check" \in StepsRun <=> env.write_mode = "Strict"
          /\ "post_init" \in StepsRun <=> env.post_init # "none"
    /\ (steps # << >> /\ Last(steps) = "strict_check") =>
          /\ fs = TargetAsHookLeftIt
          /\ init_result = "TargetNotEmpty" <=> ~is_dir_empty(TargetAsHookLeftIt, target_canonical)

\* A Strict run into a target that held a file: the pre-init hook emptied
\* it, the check passed, the template was copied and committed, and the
\* failing post-init hook prevented nothing.
C38_Witness ==
    /\ pc = "done"
    /\ init_result = "Ok"
    /\ env.write_mode = "Strict"
    /\ env.pre_init = "clean"
    /\ ~is_dir_empty(fs_init, env.target_path)
    /\ steps = << "lookup", "resolve_options", "resolve_source", "source_check",
                  "dangerous_check", "pre_init", "strict_check", "copy_template",
                  "git config", "git init", "git add", "git commit", "post_init", "created" >>
    /\ env.post_init = "fail"

\* A failure at the Strict check, after a hook wrote into a created target.
C38_StoppedWitness ==
    /\ pc = "done"
    /\ init_result = "TargetNotEmpty"
    /\ env.pre_init = "touch"
    /\ steps = << "lookup", "resolve_options", "resolve_source", "source_check",
                  "create_target", "dangerous_check", "pre_init", "strict_check" >>

----------------------------------------------------------------------------
(* ResolvedOptions::build on its own, and its properties (SpecResolve) *)

InitResolve ==
    /\ options \in BuildArguments
    /\ resolved = NotBuilt
    /\ pc = "build"
    /\ caller = "direct"
    /\ fs = EmptyFs
    /\ fs0 = EmptyFs
    /\ fs_prev = EmptyFs
    /\ fs_init = EmptyFs
    /\ env = NoEnv
    /\ source_dir = TemplateDir
    /\ dest_dir = WorkDir
    /\ exclude = << >>
    /\ write_mode = "unset"
    /\ copy_mode = "unset"
    /\ stack = << >>
    /\ trace = << >>
    /\ result = "none"
    /\ collisions = {}
    /\ target_canonical = << "?" >>
    /\ steps = << >>
    /\ init_result = "none"
    /\ StoreIdle

NextResolve == Build

SpecResolve == InitResolve /\ [][NextResolve]_vars

\* The value of one level of the cascade when that level is the one that
\* decides: the flag if present, else the template's if present, else the
\* config's.
Decides(level, flag, template_value, config_value) ==
    IF level = "flag" THEN flag.some
    ELSE IF level = "template" THEN ~flag.some /\ template_value.some
    ELSE ~flag.some /\ ~template_value.some

\* C11: build always returns a git mode and a write mode, and each of the
\* two is, independently of the other, the CLI flag when there is one,
\* otherwise the template's override when there is one, otherwise the
\* Config's value.
C11_FlagThenTemplateThenConfig ==
    pc = "built" =>
        /\ resolved.git \in GitModes
        /\ resolved.write_mode \in WriteModes
        /\ options.git_flag.some => resolved.git = options.git_flag.val
        /\ Decides("template", options.git_flag, options.template.git, options.config.git)
              => resolved.git = options.template.git.val
        /\ Decides("config", options.git_flag, options.template.git, options.config.git)
              => resolved.git = options.config.git
        /\ options.write_mode_flag.some => resolved.write_mode = options.write_mode_flag.val
        /\ Decides("template", options.write_mode_flag, options.template.write_mode,
                   options.config.write_mode)
              => resolved.write_mode = options.template.write_mode.val
        /\ Decides("config", options.write_mode_flag, options.template.write_mode,
                   options.config.write_mode)
              => resolved.write_mode = options.config.write_mode

\* build has returned the flag's git mode against a different template
\* override and a different Config value, and, there being no write-mode
\* flag, the template's write mode against a different Config value.
C11_Witness ==
    /\ pc = "built"
    /\ options.git_flag = Some("NoGit")
    /\ options.template.git = Some("Preserve")
    /\ options.config.git = "Fresh"
    /\ resolved.git = "NoGit"
    /\ ~options.write_mode_flag.some
    /\ options.template.write_mode = Some("SkipOverwrite")
    /\ options.config.write_mode = "Ask"
    /\ resolved.write_mode = "SkipOverwrite"

\* C12: the resolved exclude list is Config.exclude followed by the
\* template's list (by nothing when the template has none), in order and
\* with duplicates kept, whatever the flags.
C12_ExcludeIsConfigThenTemplate ==
    pc = "built" =>
        LET c == options.config.exclude
            t == IF options.template.exclude.some THEN options.template.exclude.val ELSE << >>
        IN  /\ Len(resolved.exclude) = Len(c) + Len(t)
            /\ \A i \in 1..Len(c) : resolved.exclude[i] = c[i]
            /\ \A i \in 1..Len(t) : resolved.exclude[Len(c) + i] = t[i]

\* build has appended a template list that repeats a Config pattern: the
\* pattern is there twice, the Config's patterns first; both flags are set.
C12_Witness ==
    /\ pc = "built"
    /\ options.git_flag.some
    /\ options.write_mode_flag.some
    /\ options.config.exclude = << <<"node_modules">>, <<".DS_Store">> >>
    /\ options.template.exclude = Some(<< <<"node_modules">>, <<"*.log">> >>)
    /\ resolved.exclude = << <<"node_modules">>, <<".DS_Store">>, <<"node_modules">>, <<"*.log">> >>

----------------------------------------------------------------------------
(* The registry commands on their own, and their properties (SpecRegistry) *)

\* The variables of the template operations, at rest.
TemplateIdle ==
    /\ fs = EmptyFs
    /\ caller = "direct"
    /\ fs0 = EmptyFs
    /\ fs_prev = EmptyFs
    /\ fs_init = EmptyFs
    /\ env = NoEnv
    /\ source_dir = TemplateDir
    /\ dest_dir = WorkDir
    /\ exclude = << >>
    /\ write_mode = "unset"
    /\ copy_mode = "unset"
    /\ stack = << >>
    /\ trace = << >>
    /\ result = "none"
    /\ collisions = {}
    /\ target_canonical = << "?" >>
    /\ steps = << >>
    /\ init_result = "none"
    /\ options = NoOptions
    /\ resolved = NotBuilt

\* The registry is empty: no file has been written yet.
InitRegistry ==
    /\ TemplateIdle
    /\ pc = "registry"
    /\ disk = NoDisk
    /\ procs = NoProcs
    /\ concurrency = 0
    /\ last = NoCommand

NextRegistry ==
    \/ CmdAdd
    \/ CmdChange
    \/ CmdRemove

SpecRegistry == InitRegistry /\ [][NextRegistry]_vars

\* The registry a load of the disk d gives.
Persisted(d) == Registry_load_from_path(d, RegistryPath).value

PersistedNames(d) == { Persisted(d).templates[i].name : i \in DOMAIN Persisted(d).templates }

\* C24: the registry file always loads, and no two of its templates have
\* the same name; cmd_add of a registered name returns TemplateExists, and
\* so does cmd_change with a new name that is registered, both leaving the
\* registry as it was.
C24_NamesAreUnique ==
    /\ Registry_load_from_path(disk, RegistryPath).err = ""
    /\ \A i, j \in DOMAIN Persisted(disk).templates :
          Persisted(disk).templates[i].name = Persisted(disk).templates[j].name => i = j
    /\ (last.op = "add" /\ last.err \notin {"GitFailed", "PathNotFound"}) =>
          LET name == IF last.args[2] = "None" THEN DefaultName(last.args[1]) ELSE last.args[2]
          IN  IF name \in PersistedNames(last.before)
              THEN last.err = "TemplateExists" /\ Persisted(disk) = Persisted(last.before)
              ELSE last.err = ""
    /\ ( /\ last.op = "change"
         /\ last.args[1] \in PersistedNames(last.before)
         /\ last.args[2].name.some
         /\ last.args[2].name.val \in PersistedNames(last.before) )
       => last.err = "TemplateExists" /\ Persisted(disk) = Persisted(last.before)

\* With a and b registered, cmd_change of a to the name b was refused.
C24_Witness ==
    /\ last.op = "change"
    /\ last.args[1] = "a"
    /\ last.args[2].name = Given("b")
    /\ last.err = "TemplateExists"
    /\ PersistedNames(disk) = {"a", "b"}
    /\ Len(Persisted(disk).templates) = 2

\* The names of a list, and whether they are all different.
ListedNames(names) == { names[i] : i \in DOMAIN names }
Distinct(names) == \A i, j \in DOMAIN names : names[i] = names[j] => i = j

\* C25: cmd_remove of registered names, each listed once, removes them all
\* and nothing else; with a name that is not registered when its turn
\* comes (a name listed twice included) it returns TemplateNotFound and the
\* registry is the one it loaded.
C25_RemoveIsAllOrNothing ==
    last.op = "remove" =>
        IF ListedNames(last.args) \subseteq PersistedNames(last.before) /\ Distinct(last.args)
        THEN /\ last.err = ""
             /\ PersistedNames(disk) = PersistedNames(last.before) \ ListedNames(last.args)
             /\ \A i \in DOMAIN Persisted(disk).templates :
                   \E j \in DOMAIN Persisted(last.before).templates :
                       Persisted(disk).templates[i] = Persisted(last.before).templates[j]
        ELSE /\ last.err = "TemplateNotFound"
             /\ Persisted(disk) = Persisted(last.before)

\* The test's scenario: cmd_remove(["a", "c"]) with a registered and c not
\* has failed, and a is still registered, with b.
C25_Witness ==
    /\ last.op = "remove"
    /\ last.args = << "a", "c" >>
    /\ last.err = "TemplateNotFound"
    /\ PersistedNames(last.before) = {"a", "b"}
    /\ PersistedNames(disk) = {"a", "b"}

\* The reasons cmd_change fails for: nothing to change, a template that is
\* not registered, a new name that is registered, a new location that
\* cannot be canonicalized.
ChangeMustFail(registry, template_name, changes) ==
    \/ ~changes.name.some /\ ~changes.description.some /\ ~changes.location.some
    \/ template_name \notin { registry.templates[i].name : i \in DOMAIN registry.templates }
    \/ /\ changes.name.some
       /\ changes.name.val \in { registry.templates[i].name : i \in DOMAIN registry.templates }
    \/ changes.location.some /\ ~canonicalize_ok(changes.location.val)

\* The field of a template after a change: the given value, or the old one.
FieldAfter(given, old) == IF given.some THEN given.val ELSE old

\* The template `after` is `before` with exactly the given fields changed.
ChangedAsGiven(before, after, changes) ==
    /\ after.name = FieldAfter(changes.name, before.name)
    /\ after.location = FieldAfter(changes.location, before.location)
    /\ after.description = FieldAfter(changes.description, before.description)

\* C36: a cmd_change that must fail returns an error and the registry a
\* load gives is the one before, whatever other fields were given; one that
\* succeeds has changed exactly the given fields of the named template and
\* nothing of any other template.
C36_ChangeIsAllOrNothing ==
    last.op = "change" =>
        IF ChangeMustFail(Persisted(last.before), last.args[1], last.args[2])
        THEN /\ last.err # ""
             /\ Persisted(disk) = Persisted(last.before)
        ELSE /\ last.err = ""
             /\ Persisted(disk).version = Persisted(last.before).version
             /\ DOMAIN Persisted(disk).templates = DOMAIN Persisted(last.before).templates
             /\ \A i \in DOMAIN Persisted(last.before).templates :
                   IF Persisted(last.before).templates[i].name = last.args[1]
                   THEN ChangedAsGiven(Persisted(last.before).templates[i],
                                       Persisted(disk).templates[i], last.args[2])
                   ELSE Persisted(disk).templates[i] = Persisted(last.before).templates[i]

\* A new name and a new description were given with a location that does
\* not exist: cmd_change has failed and the template has its old name and
\* description.
C36_Witness ==
    /\ last.op = "change"
    /\ last.args[1] = "a"
    /\ last.args[2].name = Given("b")
    /\ last.args[2].description = Given("d")
    /\ last.args[2].location = Given(Location("", "gone"))
    /\ last.err = "PathNotFound"
    /\ PersistedNames(disk) = {"a"}
    /\ Persisted(disk).templates[1].description = NoDescription

\* A template with a description was given a new location only: it has
\* kept its name and description, and the other template is as it was.
C36_SuccessWitness ==
    /\ last.op = "change"
    /\ last.err = ""
    /\ Len(Persisted(disk).templates) = 2
    /\ ~last.args[2].name.some
    /\ ~last.args[2].description.some
    /\ last.args[2].location.some
    /\ \E i \in DOMAIN Persisted(disk).templates :
          /\ Persisted(disk).templates[i].name = last.args[1]
          /\ Persisted(disk).templates[i].description = "d"
          /\ Persisted(disk).templates[i].location = last.args[2].location.val
          /\ Persisted(last.before).templates[i].location # last.args[2].location.val

----------------------------------------------------------------------------
(* Config::load_from_path on its own, and its properties (SpecConfig) *)

\* The objects of a config file: each field there or not, versions below,
\* at and above the supported one.
ConfigObjects ==
    [version : {NotGiven} \cup { Given(v) : v \in 0..3 },
     git : {NotGiven} \cup { Given(g) : g \in GitModes },
     write_mode : { NotGiven, Given("Strict"), Given("Ask") },
     exclude : { NotGiven, Given(<< >>) },
     color : { NotGiven, Given(FALSE) }]

\* The config file: absent, cut short, or a whole object.
ConfigFiles ==
    { NoFile, EmptyFile } \cup { CompleteFile(o) : o \in ConfigObjects }

InitConfig ==
    /\ TemplateIdle
    /\ pc = "config"
    /\ \E file \in ConfigFiles : disk = [NoDisk EXCEPT ![ConfigPath] = file]
    /\ procs = NoProcs
    /\ concurrency = 0
    /\ last = NoCommand

NextConfig == ConfigLoad

SpecConfig == InitConfig /\ [][NextConfig]_vars

\* The object in the config file the load read, when the file held one
\* with a version.
LoadedObject == from_str(last.before[ConfigPath].chunks).value
HasVersion ==
    /\ last.before[ConfigPath].exists
    /\ from_str(last.before[ConfigPath].chunks).ok
    /\ LoadedObject.version.some

\* C29: Config::load_from_path gives Config::new() when the file is absent,
\* the file's configuration when its version is at most CONFIG_VERSION,
\* and UnsupportedConfigVersion with no value when it is greater.
C29_ConfigVersionGate ==
    pc = "config_loaded" =>
        /\ ~last.before[ConfigPath].exists => last.err = "" /\ last.args[1] = Config_new
        /\ (HasVersion /\ LoadedObject.version.val <= CONFIG_VERSION)
              => /\ last.err = ""
                 /\ last.args[1].version = LoadedObject.version.val
                 /\ LoadedObject.git.some => last.args[1].git = LoadedObject.git.val
                 /\ ~LoadedObject.git.some => last.args[1].git = "Fresh"
        /\ (HasVersion /\ LoadedObject.version.val > CONFIG_VERSION)
              => last.err = "UnsupportedConfigVersion"
        /\ last.err # "" => last.args = << "none" >>
        /\ disk = last.before

\* A file of version 0, older than the build's, was accepted, and its
\* missing git field took the default.
C29_Witness ==
    /\ pc = "config_loaded"
    /\ HasVersion
    /\ LoadedObject.version.val = 0
    /\ ~LoadedObject.git.some
    /\ last.err = ""
    /\ last.args[1].version = 0
    /\ last.args[1].git = "Fresh"

----------------------------------------------------------------------------
(* save_to_path step by step: one invocation at a time (SpecSave), two at
   once (SpecRace) *)

\* A registry written by an earlier run of the tool.
PreviousRegistry ==
    [version |-> REGISTRY_VERSION,
     templates |-> << Template("c", Location("https://", "b.git"), NoDescription) >>]

\* A config file of an older version, written by hand.
PreviousConfig ==
    [version |-> Given(0), git |-> NotGiven, write_mode |-> Given("Ask"),
     exclude |-> NotGiven, color |-> NotGiven]

\* The disk before the invocations: each file absent or whole.
SavedDisks ==
    { [NoDisk EXCEPT ![RegistryPath] = r, ![ConfigPath] = c] :
        r \in { NoFile, CompleteFile(PreviousRegistry) },
        c \in { NoFile, CompleteFile(PreviousConfig) } }

InitSaveCommon ==
    /\ TemplateIdle
    /\ pc = "save"
    /\ disk \in SavedDisks
    /\ procs = NoProcs
    /\ last = NoCommand

InitSave == InitSaveCommon /\ concurrency = 1

InitRace == InitSaveCommon /\ concurrency = 2

NextSave ==
    \/ Start
    \/ OpenTemp
    \/ WritePiece
    \/ RenameTemp
    \/ Crash

SpecSave == InitSave /\ [][NextSave]_vars

SpecRace == InitRace /\ [][NextSave]_vars

\* The file at path is absent or the whole serialization of one value.
Whole(file) == ~file.exists \/ from_str(file.chunks).ok

\* The paths a save renames its temporary file to.
TargetPaths == { RegistryPath, ConfigPath }

\* C26: with one invocation at a time, whatever step of a save a process
\* dies at, the file at the target path is at every moment absent or a
\* whole serialization, and a step changes it only from the previous whole
\* file to the whole serialization being saved: a load never finds a
\* partial file.
C26_SaveIsAtomic ==
    [][ \A path \in TargetPaths :
          /\ Whole(disk[path])
          /\ Whole(disk'[path])
          /\ disk'[path] # disk[path] =>
                \E i \in Invocations :
                    /\ PathOf(i) = path
                    /\ procs[i].pc = "rename"
                    /\ disk'[path] = CompleteFile(procs[i].saving)
                    /\ disk[temp_path(path)] = CompleteFile(procs[i].saving) ]_vars

\* The temporary file was left cut short by a process that died, a later
\* invocation has saved over it, and the registry file is whole and holds
\* that invocation's template.
C26_Witness ==
    /\ \E i \in Invocations : procs[i].pc = "crashed" /\ PathOf(i) = RegistryPath
    /\ \E i \in Invocations : procs[i].pc = "done" /\ PathOf(i) = RegistryPath
    /\ disk[RegistryPath].exists
    /\ from_str(disk[RegistryPath].chunks).ok
    /\ Len(from_str(disk[RegistryPath].chunks).value.templates) = 2
    /\ ~disk[temp_path(RegistryPath)].exists

\* C27: with two invocations saving at once, the registry file is at every
\* moment absent or the whole serialization written by one invocation.
C27_LastWriterWins == Whole(disk[RegistryPath])

\* C27, in the end only: when every invocation has returned and none has
\* crashed, the registry file is whole.
C27_WholeInTheEnd ==
    (\A i \in Invocations : procs[i].pc \in {"done", "failed"})
    => Whole(disk[RegistryPath])

----------------------------------------------------------------------------
(* relative_path_between on its own, and its properties (SpecRelative) *)

\* The longest paths the function is applied to, and their components.
MaxPathLen == 3
PathNames == {"a", "b", ".."}

\* Absolute paths, as the components after the root.
PathsUpTo(n) == UNION { [1..k -> PathNames] : k \in 0..n }

InitRelative ==
    /\ TemplateIdle
    /\ pc = "relative"
    /\ disk = NoDisk
    /\ procs = NoProcs
    /\ concurrency = 0
    /\ \E from_dir, to \in PathsUpTo(MaxPathLen) :
          last = Command("relative_path_between", << from_dir, to >>, NoDisk, "")

\* One call of relative_path_between(from_dir, to): the result is kept as
\* the third element of last.args.
RelativePathBetween ==
    /\ pc = "relative"
    /\ pc' = "relative_done"
    /\ last' = [last EXCEPT !.args = Append(@, relative_path_between(last.args[1], last.args[2]))]
    /\ UNCHANGED << fs, caller, copyVars, initVars, resolveVars, disk, procs, concurrency >>

NextRelative == RelativePathBetween

SpecRelative == InitRelative /\ [][NextRelative]_vars

\* The length of the longest common prefix of two sequences.
LongestCommonPrefix(a, b) ==
    CHOOSE c \in 0..Len(a) :
        /\ c <= Len(b)
        /\ SubSeq(a, 1, c) = SubSeq(b, 1, c)
        /\ (c < Len(a) /\ c < Len(b)) => a[c + 1] # b[c + 1]

\* The path has no `..` component: it is what canonicalize, or a join of
\* walked names onto it, gives.
Normal(path) == \A i \in DOMAIN path : path[i] # ".."

\* n `..` segments followed by the components of `to` after its first c.
UpThenDown(n, to, c) == [i \in 1..n |-> ".."] \o SubSeq(to, c + 1, Len(to))

C34_JoinGivesToForEveryPath ==
    pc = "relative_done" =>
        Lexical(<< >>, last.args[1] \o last.args[3]) = Lexical(<< >>, last.args[2])

----------------------------------------------------------------------------
(* The walk's filter on its own, and its properties (SpecFilter) *)

\* Source roots whose own components are named like excluded entries, or
\* match a pattern.
FilterRoots ==
    { TemplateDir, <<"node_modules", "t">>, <<".git", "t">>, <<"home", ".git">>,
      <<"a.log">>, <<"dist">>, <<"deep", "nested">> }

\* Exclude lists that compile: none, the defaults alone and with a
\* component, a glob and a path pattern, and the pattern that matches
\* everything.
FilterExcludes ==
    { << >>, << <<"*">> >> }
    \cup { DefaultExclude \o x :
            x \in { << >>, << <<"dist">> >>, << <<"*.log">> >>, << <<"deep", "nested">> >>,
                    << <<"nested">> >>, << <<"t">> >> } }

\* An entry of the walk: the root itself or a path below it.
InitFilter ==
    /\ TemplateIdle
    /\ pc = "filter_entry"
    /\ disk = NoDisk
    /\ procs = NoProcs
    /\ concurrency = 0
    /\ \E source_root \in FilterRoots, relative \in RelPaths \cup { << >> },
          patterns \in FilterExcludes :
          last = Command("filter_entry", << source_root, relative, patterns >>, NoDisk, "")

\* One call of the filter on the entry source_root/relative: whether the
\* walk keeps the entry is the fourth element of last.args.
FilterEntry ==
    /\ pc = "filter_entry"
    /\ pc' = "filter_done"
    /\ last' = [last EXCEPT !.args =
                   Append(@, filter_entry(last.args[1] \o last.args[2], last.args[1], last.args[3]))]
    /\ UNCHANGED << fs, caller, copyVars, initVars, resolveVars, disk, procs, concurrency >>

NextFilter == FilterEntry

SpecFilter == InitFilter /\ [][NextFilter]_vars

\* C40: whether the walk keeps an entry depends only on the entry's path
\* relative to the source root: the answer for source_root/relative is the
\* answer for the same relative path under a root none of whose components
\* is .git or matches a pattern; and the source root itself is kept
\* whatever the patterns.
C40_ExclusionLooksBelowTheRootOnly ==
    pc = "filter_done" =>
        /\ last.args[4] = filter_entry(<<"r">> \o last.args[2], <<"r">>, last.args[3])
        /\ last.args[2] = << >> => last.args[4]
        /\ HasGitComponent(last.args[2]) => ~last.args[4]

\* An entry of a template stored under a directory named node_modules is
\* kept under the default exclude list.
C40_Witness ==
    /\ pc = "filter_done"
    /\ last.args[1] = <<"node_modules", "t">>
    /\ last.args[2] = <<"src", "main.txt">>
    /\ last.args[3] = DefaultExclude
    /\ last.args[4]

\* The root of a template stored in a directory named .git is kept under a
\* pattern that matches every path.
C40_RootWitness ==
    /\ pc = "filter_done"
    /\ last.args[1] = <<"home", ".git">>
    /\ last.args[2] = << >>
    /\ last.args[3] = << <<"*">> >>
    /\ last.args[4]

=============================================================================
